---- MODULE Spec2Model ----
(***************************************************************************)
(* Model of the place-card bot: the Record Store (table google_sheet_data),*)
(* the external Notion table, the two scheduled sync passes of             *)
(* models/notion.py and the chat handlers of bot/telegram_bot.py that      *)
(* write the Record Store.                                                 *)
(*                                                                         *)
(* A pass is a sequence of steps (start, one step per row, commit) so that *)
(* the chat handlers and the external editors interleave with it.  A pass  *)
(* works through an ORM session: objects are loaded once, changed in       *)
(* memory, and at commit only the columns whose value differs from the     *)
(* loaded one are written.  Queries read the committed table overlaid with *)
(* the session's own pending changes (autoflush).                          *)
(***************************************************************************)
EXTENDS Integers, Sequences, FiniteSets, TLC

(* ------------------------------ bounds -------------------------------- *)
MaxLocal == 1      \* records the chat front end may create
MaxExt == 3        \* rows of the external table
MaxEvents == 4     \* chat-handler and external-editor events in one run
LiveEvents == 2    \* the same, in a run checked for what happens eventually
MaxPlaces == 7     \* places found around the user

(* ------------------------------ values -------------------------------- *)
NoneV == "<None>"                     \* Python None / SQL NULL
NoCard == [key |-> 0]                 \* user_data without "current_card"

Names == {"Cafe X", "Bar Y"}          \* names validate_name accepts
BadNames == {"Caf#"}                  \* a name validate_name rejects
EditNames == {"Cafe X"}               \* the names typed as a new Name
Links == {"https://maps.app.goo.gl/abcDEF"}
BadLinks == {"https://goo.gl/maps/abcDEF"}   \* a link validate_google_maps rejects
Types == {"Services"}                 \* a type the edit menu accepts
BadTypes == {"Hotel"}                 \* a type it rejects
HoursValues == {"9-5"}
ExtHoursValues == {"10-6"}
ExtNames == {"Bar Z"}
\* what an external editor puts in the Hours of Operation cell: the hours, or
\* nothing
ExtHoursEdits == ExtHoursValues \cup {NoneV}
\* what an external editor puts in the Google Map cell: a link, or nothing
ExtLinks == {"https://maps.google.com/maps/@9.748917,-83.753428,15z", NoneV}
PageIds == <<"p1", "p2", "p3", "p4", "p5", "p6">>

Columns == {"Name", "Type", "ID", "Photo Google Drive", "Location",
            "Google Map", "Phone Number", "WhatsApp Number",
            "Hours of Operation", "Owner / Manager"}

Fields == {"Name", "ID", "id_page", "type", "photo", "location",
           "google_map", "phone_number", "whatsapp", "hours_of_operation",
           "coordinates", "manager_phone_number", "is_new", "is_updated"}

StartsWith(s, prefix) ==
    Len(s) >= Len(prefix) /\ SubSeq(s, 1, Len(prefix)) = prefix

IsDigit(c) == c \in {"0", "1", "2", "3", "4", "5", "6", "7", "8", "9"}

IsLetter(c) ==
    c \in {"a", "b", "c", "d", "e", "f", "g", "h", "i", "j", "k", "l", "m",
           "n", "o", "p", "q", "r", "s", "t", "u", "v", "w", "x", "y", "z",
           "A", "B", "C", "D", "E", "F", "G", "H", "I", "J", "K", "L", "M",
           "N", "O", "P", "Q", "R", "S", "T", "U", "V", "W", "X", "Y", "Z"}

\* Python truthiness of a str-or-None value
Falsy(v) == v \in {"", NoneV}

\* A ModelPlaceCard() object in memory before its INSERT: every attribute
\* reads as None.
Transient == [f \in Fields |-> NoneV]

\* An INSERT whose default for the two flags is True
ModelPlaceCard_Dirty(m, unset) ==
    [f \in Fields |->
        IF f \in unset
        THEN (IF f \in {"is_new", "is_updated"} THEN TRUE ELSE "")
        ELSE m[f]]

\* The INSERT applies the column defaults to the attributes never assigned
\* (those still None in memory that the code cannot have set to None).
ModelPlaceCard(m, unset) ==
    [f \in Fields |->
        IF f \in unset
        THEN (IF f \in {"is_new", "is_updated"} THEN FALSE ELSE "")
        ELSE m[f]]

\* ModelPlaceCard.to_dict: the columns sent to the external table
to_dict_columns(r) ==
    {c \in {"Name"} : ~Falsy(r.Name)}
    \cup {c \in {"Type"} : ~Falsy(r.type)}
    \cup {c \in {"Photo Google Drive"} : ~Falsy(r.photo)}
    \cup {c \in {"Google Map"} : ~Falsy(r.google_map)}
    \cup {c \in {"Phone Number"} : ~Falsy(r.phone_number)}
    \cup {c \in {"WhatsApp Number"} : ~Falsy(r.whatsapp)}
    \cup {c \in {"Hours of Operation"} : ~Falsy(r.hours_of_operation)}
    \cup {c \in {"Owner / Manager", "Location"} : ~Falsy(r.manager_phone_number)}

to_dict(r) ==
    [c \in to_dict_columns(r) |->
        CASE c = "Name" -> r.Name
          [] c = "Type" -> r.type
          [] c = "Photo Google Drive" -> r.photo
          [] c = "Google Map" -> r.google_map
          [] c = "Phone Number" -> r.phone_number
          [] c = "WhatsApp Number" -> r.whatsapp
          [] c = "Hours of Operation" -> r.hours_of_operation
          [] c = "Owner / Manager" -> r.manager_phone_number
          [] OTHER -> r.location]

(* ------------------------- the external table ------------------------- *)
\* Notion.format_property for the values to_dict produces (str or None):
\* the typed property sent for a column.
format_property(column_name, value) ==
    CASE column_name = "Name" -> [kind |-> "title", val |-> value]
      [] column_name \in {"Photo Google Drive", "Google Map"} ->
            [kind |-> "url", val |-> value]
      [] column_name = "Type" -> [kind |-> "select", val |-> value]
      [] column_name \in {"Phone Number", "WhatsApp Number",
                          "Hours of Operation", "Owner / Manager"} ->
            [kind |-> "rich_text", val |-> value]
      [] OTHER -> [kind |-> "rich_text",
                   val |-> IF value = NoneV THEN "None" ELSE value]

\* Python values as the API returns them: a text or None (Leaf), a mapping
\* with its keys in document order (Dict), a sequence (List).
Leaf(v) == [t |-> "leaf", v |-> v]
Dict(items) == [t |-> "dict", items |-> items]
List(items) == [t |-> "list", items |-> items]
Item(k, v) == [k |-> k, v |-> v]

RECURSIVE recursive_search(_, _)
RECURSIVE SearchItems(_, _, _)
\* the loops of recursive_search from entry i on: the values appended to
\* results, in the order they are appended
SearchItems(d, target_key, i) ==
    IF i > Len(d.items) THEN <<>>
    ELSE LET here ==
               IF d.t = "dict"
               THEN (IF d.items[i].k = target_key THEN <<d.items[i].v>> ELSE <<>>)
                    \o (IF d.items[i].v.t \in {"dict", "list"}
                        THEN recursive_search(d.items[i].v, target_key)
                        ELSE <<>>)
               ELSE recursive_search(d.items[i], target_key)
         IN here \o SearchItems(d, target_key, i + 1)

recursive_search(d, target_key) ==
    IF d.t \in {"dict", "list"} THEN SearchItems(d, target_key, 1) ELSE <<>>

\* search_by_key returning the last value found
search_by_key_Last(dictionary, key) ==
    LET results == recursive_search(dictionary, key)
    IN IF results # <<>> THEN results[Len(results)] ELSE Leaf(NoneV)

\* search_by_key: results[0] if results else None
search_by_key(dictionary, key) ==
    LET results == recursive_search(dictionary, key)
    IN IF results # <<>> THEN results[1] ELSE Leaf(NoneV)

\* One item of a title or rich_text property as the API returns it
RichText(content) ==
    Dict(<<Item("type", Leaf("text")),
           Item("text", Dict(<<Item("content", Leaf(content)),
                               Item("link", Leaf(NoneV))>>)),
           Item("plain_text", Leaf(content)),
           Item("href", Leaf(NoneV))>>)

\* The value the API returns for a cell of the external table
Response(prop) ==
    CASE prop.kind \in {"title", "rich_text"} ->
            Dict(<<Item("id", Leaf("a")), Item("type", Leaf(prop.kind)),
                   Item(prop.kind, List(IF prop.val = NoneV THEN <<>>
                                        ELSE <<RichText(prop.val)>>))>>)
      [] prop.kind = "select" ->
            Dict(<<Item("id", Leaf("b")), Item("type", Leaf("select")),
                   Item("select", IF prop.val = NoneV THEN Leaf(NoneV)
                                  ELSE Dict(<<Item("id", Leaf("c")),
                                              Item("name", Leaf(prop.val)),
                                              Item("color", Leaf("default"))>>))>>)
      [] OTHER ->
            Dict(<<Item("id", Leaf("d")), Item("type", Leaf(prop.kind)),
                   Item(prop.kind, Leaf(prop.val))>>)

\* search_by_key(value, key) for the value of a cell: the text found or None
Extracted(prop, key) == search_by_key(Response(prop), key).v

\* The column types of the external table; a row returned by the table
\* carries every column, empty where nothing was written.
ColumnKind(c) ==
    CASE c = "Name" -> "title"
      [] c \in {"Type", "Location"} -> "select"
      [] c = "ID" -> "number"
      [] c \in {"Photo Google Drive", "Google Map"} -> "url"
      [] OTHER -> "rich_text"

EmptyProperties == [c \in Columns |-> [kind |-> ColumnKind(c), val |-> NoneV]]

\* properties = {column: format_property(column, value)} of update_or_insert_row
FormatAll(row_data) ==
    [c \in DOMAIN row_data |-> format_property(c, row_data[c])]

Overwrite(old, properties) ==
    [c \in Columns |-> IF c \in DOMAIN properties THEN properties[c] ELSE old[c]]

\* The API takes a property only in the type of its column; pages.update and
\* pages.create raise otherwise.
Accepts(properties) ==
    \A c \in DOMAIN properties : properties[c].kind = ColumnKind(c)

\* The table keeps a row an external editor deleted, marked archived; a query
\* of the table does not return it and its id is never given to another row.
Listed(rows) == {i \in 1..Len(rows) : ~rows[i].archived}

\* Notion.read_all_rows when the query succeeds
read_all_rows(rows) == SelectSeq(rows, LAMBDA row : ~row.archived)

\* existing_row = next((row for row in rows if row["id"] == row_id), None),
\* as an index of the table
ExistingRow(rows, row_id) ==
    IF \E i \in Listed(rows) : rows[i].id = row_id
    THEN CHOOSE i \in Listed(rows) :
            /\ rows[i].id = row_id
            /\ \A j \in Listed(rows) : j < i => rows[j].id # row_id
    ELSE 0

\* Notion.update_or_insert_row when the API calls succeed: pages.update of the
\* row with id row_id when read_all_rows lists it, pages.create otherwise.
\* src records for which local record (id_key) a row was created; 0 for a row
\* made by an external editor.
update_or_insert_row(rows, row_id, row_data, src) ==
    LET i == ExistingRow(rows, row_id)
        properties == FormatAll(row_data)
    IN IF i # 0
       THEN [rows EXCEPT ![i].properties = Overwrite(@, properties)]
       ELSE Append(rows, [id |-> PageIds[Len(rows) + 1],
                          src |-> src, archived |-> FALSE,
                          properties |-> Overwrite(EmptyProperties, properties)])

(* ------------------------------- state -------------------------------- *)
VARIABLES
    db,            \* Record Store: db[k] is the record with id_key = k
    origin,        \* origin[k]: who created record k ("import", "front", "pull")
    ext,           \* external table in listing order
    current_card,  \* the chat session's user_data["current_card"]
    sync_pc,       \* what the sync thread runs: "idle", "push" or "pull"
    push_rows,     \* push pass: the objects loaded at pass start
    push_i,        \* push pass: index of the next object
    push_ok,       \* push pass: id_keys whose flags were cleared in the session
    pull_rows,     \* pull pass: the rows returned by read_all_rows
    pull_i,        \* pull pass: index of the next row (counting down)
    pull_mod,      \* pull pass: loaded and current values of the objects touched
    pull_new,      \* pull pass: the new objects added to the session
    pull_skip,     \* pull pass: id_keys skipped because a local edit is pending
    pull_net,      \* pull pass: per row overwritten, what the resolver was asked
    done,          \* summary of the last finished pass
    quiet,         \* no chat handler wrote the Record Store since the last pass started
    events,        \* number of accepted chat inputs and external edits so far
    fn             \* a helper function applied on its own: arguments and result

vars == <<db, origin, ext, current_card, sync_pc, push_rows, push_i, push_ok,
          pull_rows, pull_i, pull_mod, pull_new, pull_skip, pull_net, done,
          quiet, events, fn>>

\* the state of the bot and of the external table
botVars == <<db, origin, ext, current_card, sync_pc, push_rows, push_i, push_ok,
             pull_rows, pull_i, pull_mod, pull_new, pull_skip, pull_net, done,
             quiet, events>>

pushVars == <<push_rows, push_i, push_ok>>
pullVars == <<pull_rows, pull_i, pull_mod, pull_new, pull_skip, pull_net>>

\* The summary of a pass: the id_keys it loaded (work), those whose upsert
\* answered with a dict (ok) or not (failed), those it skipped for a pending
\* local edit, the number of objects it created in its session, the external
\* rows it read, the length of the external table when it started (start);
\* for a push pass that directly follows a committed, fully successful push
\* pass with no local write in between: second, and the first pass's start
\* and ok; for a pull pass that directly follows a committed pull pass and
\* reads the rows that pass read: second; for a push pass that directly follows a push pass that ended
\* without its commit: lost, the id_keys whose upsert had succeeded in that
\* pass.  For a pull pass, net: for the id of every row it overwrote a
\* record from, the coordinates the record had before (prior) and the results
\* of the resolver calls of lines 354 and 397 ("skip" when the call was not
\* made).
NoCalls == [id \in {} |-> 0]

\* fn when no helper function is applied on its own
NoCall == [op |-> "none", called |-> FALSE]

NoPass == [kind |-> "none", result |-> "none", work |-> {}, ok |-> {},
           failed |-> {}, skipped |-> {}, created |-> 0, rows |-> <<>>,
           start |-> 0, second |-> FALSE, base |-> 0, prev_ok |-> {},
           lost |-> {}, net |-> NoCalls]

(* --------------------------- initial import --------------------------- *)
\* A row made by an external editor: a name and a business number.
ExternalRow(id, name) ==
    [id |-> id, src |-> 0, archived |-> FALSE,
     properties |-> Overwrite(EmptyProperties,
                      [c \in {"Name", "ID"} |->
                          IF c = "Name" THEN [kind |-> "title", val |-> name]
                          ELSE [kind |-> "number", val |-> "1"]])]

\* The attribute assignments both readers of an external row make for the
\* columns other than Location and Google Map.
FromRowCommon(m, num) ==
    LET P == num.properties
    IN [m EXCEPT
          !.id_page = num.id,
          !.Name = Extracted(P["Name"], "plain_text"),
          !.type = Extracted(P["Type"], "name"),
          !.ID = Extracted(P["ID"], "number"),
          !.photo = Extracted(P["Photo Google Drive"], "url"),
          !.phone_number = Extracted(P["Phone Number"], "plain_text"),
          !.whatsapp = Extracted(P["WhatsApp Number"], "plain_text"),
          !.hours_of_operation = Extracted(P["Hours of Operation"], "plain_text"),
          !.manager_phone_number = Extracted(P["Owner / Manager"], "plain_text")]

\* One iteration that reads the manager's number from the Phone Number cell
ImportRow_PhoneCell(num) ==
    LET P == num.properties
        m == [FromRowCommon(Transient, num) EXCEPT
                !.google_map = Extracted(P["Google Map"], "url"),
                !.location = Extracted(P["Location"], "name"),
                !.manager_phone_number = Extracted(P["Phone Number"], "plain_text")]
    IN ModelPlaceCard(m, {"coordinates", "is_new", "is_updated"})

\* One iteration of update_database_from_notion: the record inserted for a row
ImportRow(num) ==
    LET P == num.properties
        m == [FromRowCommon(Transient, num) EXCEPT
                !.google_map = Extracted(P["Google Map"], "url"),
                !.location = Extracted(P["Location"], "name")]
    IN ModelPlaceCard(m, {"coordinates", "is_new", "is_updated"})

\* update_database_from_notion: one record per row, rows taken in reverse
update_database_from_notion(rows) ==
    [k \in 1..Len(rows) |-> ImportRow(rows[Len(rows) + 1 - k])]

\* The external table init_db imports: one row made by an external editor
InitTables == {<<ExternalRow(PageIds[1], "Bar Y")>>}

\* The state after init_db imported the rows of the table imported, the
\* external table being table when the first pass starts
BotStart(table, imported) ==
    /\ ext = table
    /\ db = update_database_from_notion(read_all_rows(imported))
    /\ origin = [k \in 1..Len(read_all_rows(imported)) |-> "import"]
    /\ current_card = NoCard
    /\ sync_pc = "idle"
    /\ push_rows = <<>>
    /\ push_i = 0
    /\ push_ok = {}
    /\ pull_rows = <<>>
    /\ pull_i = 0
    /\ pull_mod = <<>>
    /\ pull_new = <<>>
    /\ pull_skip = {}
    /\ pull_net = NoCalls
    /\ done = NoPass
    /\ quiet = FALSE

\* The state after init_db and before the first chat message and the first
\* sync pass
BotInit == \E table \in InitTables : BotStart(table, table)

Init == BotInit /\ events = 0 /\ fn = NoCall

(* --------------------------- chat front end --------------------------- *)
validate_name(name) == name \in Names

\* TelegramBot.validate_google_maps:
\* re.match(r"^https:\/\/maps\.app\.goo\.gl\/[a-zA-Z0-9]+$", url)
validate_google_maps(url) ==
    /\ StartsWith(url, "https://maps.app.goo.gl/")
    /\ Len(url) > 24
    /\ \A i \in 25..Len(url) :
          IsLetter(SubSeq(url, i, i)) \/ IsDigit(SubSeq(url, i, i))

\* new_value not in ["Places to eat", "Adventures", "Services"]
valid_types == {"Places to eat", "Adventures", "Services"}

\* session.query(ModelPlaceCard).filter_by(Name=company_name).all()
CompaniesByName(name) == {k \in 1..Len(db) : db[k].Name = name}

FrontCreated == Cardinality({k \in 1..Len(origin) : origin[k] = "front"})

\* TelegramBot.handle_company_name: look the name up; load the single match,
\* create and load a new record on a miss, only list the matches when several.
handle_company_name(company_name) ==
    /\ events < MaxEvents
    /\ UNCHANGED <<ext, sync_pc, pushVars, pullVars, done, fn>>
    /\ events' = IF validate_name(company_name) THEN events + 1 ELSE events
    /\ IF ~validate_name(company_name) \/ Cardinality(CompaniesByName(company_name)) > 1
       THEN UNCHANGED <<db, origin, current_card, quiet>>
       ELSE IF CompaniesByName(company_name) # {}
       THEN LET k == CHOOSE k \in CompaniesByName(company_name) : TRUE
            IN /\ current_card' = [key |-> k, card |-> db[k]]
               /\ UNCHANGED <<db, origin, quiet>>
       ELSE /\ FrontCreated < MaxLocal
            /\ quiet' = FALSE
            /\ LET company == ModelPlaceCard([Transient EXCEPT !.Name = company_name],
                                             Fields \ {"Name"})
               IN /\ db' = Append(db, company)
                  /\ origin' = Append(origin, "front")
                  /\ current_card' = [key |-> Len(db) + 1, card |-> company]

\* The values handle_new_value may be given for each field the edit menu offers
\* (the model edits four of the eight fields).
NewValues(field) ==
    CASE field = "Name" -> EditNames \cup BadNames
      [] field = "type" -> Types \cup BadTypes
      [] field = "hours_of_operation" -> HoursValues
      [] OTHER -> Links \cup BadLinks

EditFields == {"Name", "type", "hours_of_operation", "google_map"}

\* handle_new_value without the check of the type
Rejected_AnyType(field_to_update, new_value) ==
    \/ field_to_update = "Name" /\ ~validate_name(new_value)
    \/ field_to_update = "google_map" /\ ~validate_google_maps(new_value)

\* handle_new_value, lines 607-660: the checks that end the handler with a
\* message to the user
Rejected(field_to_update, new_value) ==
    \/ field_to_update = "Name" /\ ~validate_name(new_value)
    \/ field_to_update = "type" /\ new_value \notin valid_types
    \/ field_to_update = "google_map" /\ ~validate_google_maps(new_value)

\* handle_new_value, lines 599-681, on the card of the chat session: the card
\* after the handler and the message sent
new_value_result(card, field_to_update, new_value) ==
    IF Rejected(field_to_update, new_value)
    THEN [card |-> card, reply |-> "invalid"]
    ELSE [card |-> [card EXCEPT ![field_to_update] = new_value],
          reply |-> "updated"]

\* TelegramBot.handle_new_value: validate, then set the field of the card held
\* in the chat session; the Record Store is not touched.
handle_new_value(field_to_update, new_value) ==
    /\ current_card # NoCard
    /\ events < MaxEvents
    /\ UNCHANGED <<db, origin, ext, sync_pc, pushVars, pullVars, done, quiet, fn>>
    /\ IF Rejected(field_to_update, new_value)
       THEN UNCHANGED <<current_card, events>>
       ELSE /\ events' = events + 1
            /\ current_card' =
                  [current_card EXCEPT
                     !.card = new_value_result(@, field_to_update, new_value).card]

SavedFields == {"Name", "type", "photo", "location", "google_map",
                "phone_number", "whatsapp", "manager_phone_number",
                "hours_of_operation"}

\* handle_save, lines 527-556, on the Record Store table: the loop over
\* existing_place_cards and the commit
save_place_card(table, place_card_data) ==
    [k \in 1..Len(table) |->
        IF table[k].ID = place_card_data.ID
        THEN [f \in Fields |->
                IF f \in SavedFields THEN place_card_data[f]
                ELSE IF f = "is_updated" THEN TRUE
                ELSE table[k][f]]
        ELSE table[k]]

\* TelegramBot.handle_save: every record whose business ID equals the card's
\* takes the card's nine fields and is_updated = True; then user_data.clear().
\* (The record the card was loaded from keeps its ID, so the query always
\* finds at least that record.)
handle_save ==
    /\ current_card # NoCard
    /\ events < MaxEvents
    /\ events' = events + 1
    /\ db' = save_place_card(db, current_card.card)
    /\ current_card' = NoCard
    /\ quiet' = FALSE
    /\ UNCHANGED <<origin, ext, sync_pc, pushVars, pullVars, done, fn>>

(* -------------------------- external editors -------------------------- *)
\* An external editor changes the Name, the Hours of Operation or the Google
\* Map link of a row, or clears one of the last two.
ExtEdit(i, column, value) ==
    /\ ~ext[i].archived
    /\ events < MaxEvents
    /\ events' = events + 1
    /\ ext' = [ext EXCEPT ![i].properties[column] =
                              [kind |-> ColumnKind(column), val |-> value]]
    /\ UNCHANGED <<db, origin, current_card, sync_pc, pushVars, pullVars, done,
                   quiet, fn>>

\* An external editor deletes a row
ExtDelete(i) ==
    /\ ~ext[i].archived
    /\ events < MaxEvents
    /\ events' = events + 1
    /\ ext' = [ext EXCEPT ![i].archived = TRUE]
    /\ UNCHANGED <<db, origin, current_card, sync_pc, pushVars, pullVars, done,
                   quiet, fn>>

(* ----------------------------- push pass ------------------------------ *)
Dirty(r) == r.is_new \/ r.is_updated

RECURSIVE KeysInOrder(_, _)
\* the id_keys of S from k upwards, in increasing order
KeysInOrder(S, k) ==
    IF \A j \in S : j < k THEN <<>>
    ELSE IF k \in S THEN <<k>> \o KeysInOrder(S, k + 1)
    ELSE KeysInOrder(S, k + 1)

\* The work list when the filter tests is_new alone
DirtyRows_OnlyNew ==
    LET ks == KeysInOrder({k \in 1..Len(db) : db[k].is_new}, 1)
    IN [n \in 1..Len(ks) |-> [key |-> ks[n], rec |-> db[ks[n]]]]

\* rows = session.query(ModelPlaceCard).filter(is_new | is_updated).all()
DirtyRows ==
    LET ks == KeysInOrder({k \in 1..Len(db) : Dirty(db[k])}, 1)
    IN [n \in 1..Len(ks) |-> [key |-> ks[n], rec |-> db[ks[n]]]]

\* The external table takes a new row (model bound only: the table of the
\* model holds MaxExt rows, and pages.create fails when it is full).
HasRoom(row_id) == ExistingRow(ext, row_id) # 0 \/ Len(ext) < MaxExt

\* A push job started by a second thread running Notion.sync: it does not wait
\* for the pass in progress
PushStart_SecondThread ==
    /\ sync_pc' = "push"
    /\ push_rows' = DirtyRows
    /\ push_i' = 1
    /\ push_ok' = {}
    /\ done' = [NoPass EXCEPT !.start = Len(ext), !.base = Len(ext)]
    /\ quiet' = TRUE
    /\ UNCHANGED <<db, origin, ext, current_card, pullVars, events, fn>>

\* _scheduled_task_to_Notion, lines 171-179: open a session, load the work
\* list.  The job is run by schedule.run_pending() in the one thread of
\* Notion.sync, so it starts only when no pass is in progress.
PushStart ==
    /\ sync_pc = "idle"
    /\ sync_pc' = "push"
    /\ push_rows' = DirtyRows
    /\ push_i' = 1
    /\ push_ok' = {}
    /\ LET second == /\ done.kind = "push" /\ done.result = "commit"
                      /\ done.failed = {} /\ done.ok # {} /\ quiet
       IN done' = [NoPass EXCEPT !.start = Len(ext),
                                 !.second = second,
                                 !.base = IF second THEN done.start ELSE Len(ext),
                                 !.prev_ok = IF second THEN done.ok ELSE {},
                                 !.lost = IF /\ done.kind = "push"
                                             /\ done.result = "abort"
                                          THEN done.ok ELSE {}]
    /\ quiet' = TRUE
    /\ UNCHANGED <<db, origin, ext, current_card, pullVars, events, fn>>

WorkKeys == {push_rows[n].key : n \in 1..Len(push_rows)}

PushSummary(result, failed, rows) ==
    [done EXCEPT !.kind = "push", !.result = result, !.work = WorkKeys,
                 !.ok = push_ok, !.failed = failed,
                 !.created = Len(rows) - done.start]

\* _scheduled_task_to_Notion, lines 181-189: one row of the work list.  The
\* upsert answers with a dict ("ok"), with something else ("malformed"), or
\* raises ("raise"), which ends the pass in its except clause without commit.
PushRow(outcome) ==
    /\ sync_pc = "push"
    /\ push_i <= Len(push_rows)
    /\ LET row == push_rows[push_i]
       IN CASE outcome = "ok" ->
                 /\ Accepts(FormatAll(to_dict(row.rec)))
                 /\ HasRoom(row.rec.id_page)
                 /\ ext' = update_or_insert_row(ext, row.rec.id_page,
                                                to_dict(row.rec), row.key)
                 /\ push_ok' = push_ok \cup {row.key}
                 /\ push_i' = push_i + 1
                 /\ UNCHANGED <<sync_pc, push_rows, done>>
            [] outcome = "malformed" ->
                 /\ Accepts(FormatAll(to_dict(row.rec)))
                 /\ push_i' = push_i + 1
                 /\ UNCHANGED <<ext, push_ok, sync_pc, push_rows, done>>
            [] OTHER ->
                 /\ sync_pc' = "idle"
                 /\ done' = PushSummary("abort", {row.key}, ext)
                 /\ push_rows' = <<>>
                 /\ push_i' = 0
                 /\ push_ok' = {}
                 /\ UNCHANGED ext
    /\ UNCHANGED <<db, origin, current_card, pullVars, quiet, events, fn>>

\* The commit when the pass resets is_new alone
ClearFlags_OnlyNew(current, loaded) ==
    [current EXCEPT !.is_new = IF loaded.is_new THEN FALSE ELSE @]

\* The UPDATE the commit issues for an object whose flags the pass set to
\* False: only the columns whose value differs from the loaded one.
ClearFlags(current, loaded) ==
    [current EXCEPT !.is_new = IF loaded.is_new THEN FALSE ELSE @,
                    !.is_updated = IF loaded.is_updated THEN FALSE ELSE @]

LoadedBy(rows, k) == (CHOOSE n \in 1..Len(rows) : rows[n].key = k)

\* The commit outside the try: its exception ends the loop of Notion.sync
PushCommit_Uncaught(outcome) ==
    /\ sync_pc = "push"
    /\ push_i > Len(push_rows)
    /\ IF outcome = "ok"
       THEN /\ db' = [k \in 1..Len(db) |->
                       IF k \in push_ok
                       THEN ClearFlags(db[k], push_rows[LoadedBy(push_rows, k)].rec)
                       ELSE db[k]]
            /\ done' = PushSummary("commit", WorkKeys \ push_ok, ext)
            /\ sync_pc' = "idle"
       ELSE /\ UNCHANGED db
            /\ done' = PushSummary("abort", {}, ext)
            /\ sync_pc' = "stopped"
    /\ push_rows' = <<>>
    /\ push_i' = 0
    /\ push_ok' = {}
    /\ UNCHANGED <<origin, ext, current_card, pullVars, quiet, events, fn>>

\* _scheduled_task_to_Notion, lines 194-198: session.commit(); when the
\* commit raises ("raise": the Record Store cannot be reached) the except
\* clause logs and nothing is written
PushCommit(outcome) ==
    /\ sync_pc = "push"
    /\ push_i > Len(push_rows)
    /\ IF outcome = "ok"
       THEN /\ db' = [k \in 1..Len(db) |->
                       IF k \in push_ok
                       THEN ClearFlags(db[k], push_rows[LoadedBy(push_rows, k)].rec)
                       ELSE db[k]]
            /\ done' = PushSummary("commit", WorkKeys \ push_ok, ext)
       ELSE /\ UNCHANGED db
            /\ done' = PushSummary("abort", {}, ext)
    /\ sync_pc' = "idle"
    /\ push_rows' = <<>>
    /\ push_i' = 0
    /\ push_ok' = {}
    /\ UNCHANGED <<origin, ext, current_card, pullVars, quiet, events, fn>>

(* ------------------------ coordinate resolver ------------------------- *)
\* What a request of the resolver meets: the redirect is followed ("ok"), the
\* service answers with a page that is no map ("none"), the request fails
\* ("raise").
NetOutcomes == {"ok", "none", "raise"}

\* The URL a link redirects to: the short link of the model leads to an
\* expanded place link, any other URL to itself.
Expand(url) ==
    IF url = "https://maps.app.goo.gl/abcDEF"
    THEN "https://www.google.com/maps/place/Cafe+X/@10.123456,-84.654321,17z/data=!4m6!3m5"
    ELSE url

\* The results of the resolver: a (lat, lon) pair, None, or an exception
Pair(lat, lon) == [tag |-> "pair", lat |-> lat, lon |-> lon]
NoCoordinates == [tag |-> "none", lat |-> "", lon |-> ""]
Raises == [tag |-> "raise", lat |-> "", lon |-> ""]

RECURSIVE Find(_, _, _)
\* the index of the first character ch of s at or after index i, 0 when none
Find(s, ch, i) ==
    IF i > Len(s) THEN 0
    ELSE IF SubSeq(s, i, i) = ch THEN i
    ELSE Find(s, ch, i + 1)

RECURSIVE Split(_, _)
\* s.split(sep) for a separator of one character
Split(s, sep) ==
    LET i == Find(s, sep, 1)
    IN IF i = 0 THEN <<s>>
       ELSE <<SubSeq(s, 1, i - 1)>> \o Split(SubSeq(s, i + 1, Len(s)), sep)

\* the number of digits of s from index i on
RECURSIVE DigitRun(_, _)
DigitRun(s, i) ==
    IF i <= Len(s) /\ IsDigit(SubSeq(s, i, i)) THEN 1 + DigitRun(s, i + 1) ELSE 0

\* float(s) succeeds (decimal literals: sign, digits, point, digits); in
\* FloatTail the digits before the point are n and the point, if any, is at j
FloatTail(s, n, j) ==
    IF j <= Len(s) /\ SubSeq(s, j, j) = "."
    THEN n + DigitRun(s, j + 1) > 0 /\ j + 1 + DigitRun(s, j + 1) = Len(s) + 1
    ELSE n > 0 /\ j = Len(s) + 1

FloatFrom(s, i) == FloatTail(s, DigitRun(s, i), i + DigitRun(s, i))

IsFloat(s) ==
    FloatFrom(s, IF Len(s) > 0 /\ SubSeq(s, 1, 1) \in {"-", "+"} THEN 2 ELSE 1)

\* -?\d{1,2}\.\d{6} matched at index i of s: the index after the match, 0 when
\* there is no match; in MatchDigits the n leading digits start at index j
MatchDigits(s, j, n) ==
    IF /\ n \in {1, 2}
       /\ j + n <= Len(s)
       /\ SubSeq(s, j + n, j + n) = "."
       /\ DigitRun(s, j + n + 1) >= 6
    THEN j + n + 7
    ELSE 0

MatchUnsigned(s, j) == MatchDigits(s, j, DigitRun(s, j))

MatchNumber(s, i) ==
    MatchUnsigned(s, IF i <= Len(s) /\ SubSeq(s, i, i) = "-" THEN i + 1 ELSE i)

\* re.match(r"(-?\d{1,2}\.\d{6}),(-?\d{1,2}\.\d{6})", part); the first number
\* ends before index e
MatchSecond(part, e) ==
    /\ e # 0
    /\ e <= Len(part)
    /\ SubSeq(part, e, e) = ","
    /\ MatchNumber(part, e + 1) # 0

MatchPattern(part) == MatchSecond(part, MatchNumber(part, 1))

\* t up to the character at index i (all of t when i = 0)
UpTo(t, i) == IF i = 0 THEN t ELSE SubSeq(t, 1, i - 1)

Cut(t, ch) == UpTo(t, Find(t, ch, 1))

\* t from the character at index i on (nothing when i = 0)
Onward(t, i) == IF i = 0 THEN "" ELSE SubSeq(t, i, Len(t))

PathOf(head) == Onward(head, Find(head, "/", 1))

\* urlparse(url).path of an https URL: from the first "/" after the host to
\* the query or the fragment
Path(url) == PathOf(Cut(Cut(SubSeq(url, 9, Len(url)), "#"), "?"))

\* coordinates[:2]
FirstTwo(t) == IF Len(t) > 2 THEN SubSeq(t, 1, 2) ELSE t

\* the tokens extract_coordinates_google_maps takes from one path segment
Tokens(part) ==
    IF Find(part, "@", 1) # 0
    THEN FirstTwo(Split(Split(part, "@")[2], ","))
    ELSE IF MatchPattern(part) THEN Split(part, ",")
    ELSE <<>>

\* float(coordinates[0]), float(coordinates[1])
Floats(coordinates) ==
    IF /\ IsFloat(coordinates[1])
       /\ Len(coordinates) >= 2
       /\ IsFloat(coordinates[2])
    THEN Pair(coordinates[1], coordinates[2])
    ELSE Raises

RECURSIVE ExtractFrom(_, _)
\* the loop over the path segments from segment i on; ExtractStep is one
\* segment with the tokens taken from it
ExtractStep(path_parts, i, coordinates) ==
    IF coordinates # <<>> THEN Floats(coordinates)
    ELSE ExtractFrom(path_parts, i + 1)

ExtractFrom(path_parts, i) ==
    IF i > Len(path_parts) THEN NoCoordinates
    ELSE ExtractStep(path_parts, i, Tokens(path_parts[i]))

\* Notion.extract_coordinates_google_maps
extract_coordinates_google_maps(url) ==
    ExtractFrom(Split(Path(url), "/"), 1)

\* Notion.get_full_url when the request does not fail: response.url
get_full_url(short_url, net) ==
    IF net = "ok" THEN Expand(short_url) ELSE "https://www.google.com/sorry/index"

\* Notion.get_coordinates_from_short_url
get_coordinates_from_short_url(short_url, net) ==
    IF net = "raise" THEN Raises
    ELSE extract_coordinates_google_maps(get_full_url(short_url, net))

\* get_coordinates_from_link with the length test one character later
get_coordinates_from_link_Upto70(url, net) ==
    IF url = NoneV THEN Raises
    ELSE IF StartsWith(url, "https://")
    THEN (IF Len(url) < 71 THEN get_coordinates_from_short_url(url, net)
          ELSE extract_coordinates_google_maps(url))
    ELSE NoCoordinates

\* Notion.get_coordinates_from_link; None has no startswith
get_coordinates_from_link(url, net) ==
    IF url = NoneV THEN Raises
    ELSE IF StartsWith(url, "https://")
    THEN (IF Len(url) < 70 THEN get_coordinates_from_short_url(url, net)
          ELSE extract_coordinates_google_maps(url))
    ELSE NoCoordinates

\* str(item_coordinates) of a pair of floats
StrCoordinates(item_coordinates) ==
    "(" \o item_coordinates.lat \o ", " \o item_coordinates.lon \o ")"

\* str(item_coordinates)[1:-2]
CoordinatesText(item_coordinates) ==
    SubSeq(StrCoordinates(item_coordinates), 2,
           Len(StrCoordinates(item_coordinates)) - 2)

(* ----------------------------- pull pass ------------------------------ *)
\* What a query of the pass sees of record k: the committed row overlaid with
\* the columns the session has changed and flushed.
Merge(committed, entry) ==
    [f \in Fields |-> IF entry.cur[f] # entry.loaded[f] THEN entry.cur[f]
                      ELSE committed[f]]

Seen(k) ==
    IF k <= Len(db)
    THEN (IF k \in DOMAIN pull_mod THEN Merge(db[k], pull_mod[k]) ELSE db[k])
    ELSE pull_new[k - Len(db)]

\* session.query(ModelPlaceCard).filter_by(id_page=..., is_updated=...).first():
\* the id_key of the first match, 0 when no record matches
FirstByPage(id_page, is_updated) ==
    LET S == {k \in 1..(Len(db) + Len(pull_new)) :
                 Seen(k).id_page = id_page /\ Seen(k).is_updated = is_updated}
    IN IF S = {} THEN 0 ELSE CHOOSE k \in S : \A j \in S : k <= j

\* The object the session holds for record k (not refreshed once loaded)
Held(k) ==
    IF k = 0 THEN Transient
    ELSE IF k > Len(db) THEN pull_new[k - Len(db)]
    ELSE IF k \in DOMAIN pull_mod THEN pull_mod[k].cur
    ELSE db[k]

\* Lines 338-344: the Location column
FromRowLocation(m, num) ==
    LET value == num.properties["Location"]
    IN IF value.val # NoneV THEN [m EXCEPT !.location = value.val]
       ELSE [m EXCEPT !.location = "Not specified"]

\* Lines 346-369: the Google Map column.  Returns the object, whether the
\* resolver call raised, and the result of the call ("skip": not called).
\* Lines 352-369: the object m1 after the call of the resolver
GoogleMapResolved(m1, google_map_link, item_coordinates) ==
    IF item_coordinates.tag = "raise"
    THEN [raised |-> TRUE, m |-> m1, call |-> "raise"]
    ELSE IF item_coordinates.tag = "pair"
    THEN [raised |-> FALSE, call |-> "pair",
          m |-> [m1 EXCEPT !.coordinates = CoordinatesText(item_coordinates)]]
    ELSE [raised |-> FALSE, call |-> "none",
          m |-> [m1 EXCEPT !.google_map = google_map_link]]

\* Lines 348-351: the link is assigned when the row has one
GoogleMapAssigned(m, google_map_link) ==
    IF ~Falsy(google_map_link) THEN [m EXCEPT !.google_map = google_map_link]
    ELSE m

GoogleMapChanged(m1, google_map_link, net) ==
    GoogleMapResolved(m1, google_map_link,
                      get_coordinates_from_link(m1.google_map, net))

GoogleMapLink(m, google_map_link, net) ==
    IF m.google_map = google_map_link
    THEN [raised |-> FALSE, m |-> m, call |-> "skip"]
    ELSE GoogleMapChanged(GoogleMapAssigned(m, google_map_link),
                          google_map_link, net)

FromRowGoogleMap(m, num, net) ==
    GoogleMapLink(m, Extracted(num.properties["Google Map"], "url"), net)

\* Lines 390-411 without the assignment of the sentinel
FromRowNoCoordinates_NoSentinel(m, net) ==
    IF Falsy(m.coordinates) /\ ~Falsy(m.google_map)
    THEN LET item_coordinates == get_coordinates_from_link(m.google_map, net)
         IN IF item_coordinates.tag = "pair"
            THEN [m EXCEPT !.coordinates = CoordinatesText(item_coordinates)]
            ELSE m
    ELSE m

\* Lines 390-411: a record without coordinates that has a link; a resolver
\* exception is caught here
FromRowNoCoordinates(m, net) ==
    IF Falsy(m.coordinates) /\ ~Falsy(m.google_map)
    THEN LET item_coordinates == get_coordinates_from_link(m.google_map, net)
         IN IF item_coordinates.tag = "pair"
            THEN [m EXCEPT !.coordinates = CoordinatesText(item_coordinates)]
            ELSE [m EXCEPT !.coordinates = "Bad url"]
    ELSE m

\* The result of the resolver call of line 397 ("skip": not called)
SecondCall(m, net) ==
    IF Falsy(m.coordinates) /\ ~Falsy(m.google_map)
    THEN get_coordinates_from_link(m.google_map, net).tag
    ELSE "skip"

\* Lines 317-411: the overwrite of one object from one external row
FromRowResult(prior, b, net2) ==
    [raised |-> b.raised, m |-> FromRowNoCoordinates(b.m, net2),
     net |-> [prior |-> prior, first |-> b.call,
              second |-> SecondCall(b.m, net2)]]

FromRow(m, num, net1, net2) ==
    FromRowResult(m.coordinates,
                  FromRowGoogleMap(FromRowLocation(FromRowCommon(m, num), num),
                                   num, net1),
                  net2)

\* The attributes of a new object that no assignment can have set: the INSERT
\* gives them the column default
UnsetNew(m) ==
    {"is_new", "is_updated"} \cup {f \in {"coordinates", "google_map"} : m[f] = NoneV}

PullSummary(result) ==
    [NoPass EXCEPT !.kind = "pull", !.result = result, !.work = DOMAIN pull_mod,
                   !.skipped = pull_skip, !.created = Len(pull_new),
                   !.rows = pull_rows, !.net = pull_net,
                   !.second = sync_pc = "pull" /\ done.second]

PullReset ==
    /\ sync_pc' = "idle"
    /\ pull_rows' = <<>>
    /\ pull_i' = 0
    /\ pull_mod' = <<>>
    /\ pull_new' = <<>>
    /\ pull_skip' = {}
    /\ pull_net' = NoCalls

\* _scheduled_task_from_Notion, lines 294-296: open a session, read all rows;
\* a failing read ends the pass in its except clause
PullStart(outcome) ==
    /\ sync_pc = "idle"
    /\ IF outcome = "ok"
       THEN /\ sync_pc' = "pull"
            /\ pull_rows' = read_all_rows(ext)
            /\ pull_i' = Len(read_all_rows(ext))
            /\ pull_mod' = <<>>
            /\ pull_new' = <<>>
            /\ pull_skip' = {}
            /\ pull_net' = NoCalls
            /\ done' = [NoPass EXCEPT
                          !.second = /\ done.kind = "pull"
                                     /\ done.result = "commit"
                                     /\ done.rows = read_all_rows(ext)]
            /\ quiet' = TRUE
       ELSE /\ done' = PullSummary("abort")
            /\ PullReset
            /\ UNCHANGED quiet
    /\ UNCHANGED <<db, origin, ext, current_card, pushVars, events, fn>>

\* An except clause that commits what the pass has done so far
Rollback_Commits ==
    /\ db' = [k \in 1..(Len(db) + Len(pull_new)) |-> Seen(k)]
    /\ origin' = origin \o [j \in 1..Len(pull_new) |-> "pull"]

\* session.rollback() of the except clause: nothing of the pass is written
Rollback == UNCHANGED <<db, origin>>

\* Lines 298-307 with the two filters swapped for one that ignores is_updated
Lookup_NoPrecedence(num) ==
    LET S == {k \in 1..(Len(db) + Len(pull_new)) : Seen(k).id_page = num.id}
    IN [model_place_card |-> IF S = {} THEN 0 ELSE CHOOSE k \in S : \A j \in S : k <= j,
        no_change_place_card |-> 0]

\* Lines 298-307 without the query for a record awaiting its push
Lookup_CleanOnly(num) ==
    [model_place_card |-> FirstByPage(num.id, FALSE),
     no_change_place_card |-> 0]

\* Lines 298-307: the two queries made for an external row
Lookup(num) ==
    [model_place_card |-> FirstByPage(num.id, FALSE),
     no_change_place_card |-> FirstByPage(num.id, TRUE)]

\* _scheduled_task_from_Notion, lines 297-413: one external row, rows taken
\* in reverse listing order
\* Lines 309-411: the row num overwrites the object model_place_card (0: a
\* new object); r is the outcome of the overwrite
PullOverwrite(num, model_place_card, r) ==
    IF r.raised
    THEN /\ done' = PullSummary("abort")
         /\ PullReset
         /\ Rollback
    ELSE /\ pull_i' = pull_i - 1
         /\ UNCHANGED <<db, origin, sync_pc, pull_rows, pull_skip, done>>
         /\ pull_net' = [id \in DOMAIN pull_net \cup {num.id} |->
                           IF id = num.id THEN r.net ELSE pull_net[id]]
         /\ IF model_place_card = 0
            THEN /\ pull_new' = Append(pull_new,
                                       ModelPlaceCard(r.m, UnsetNew(r.m)))
                 /\ UNCHANGED pull_mod
            ELSE IF model_place_card > Len(db)
            THEN /\ pull_new' = [pull_new EXCEPT
                                    ![model_place_card - Len(db)] = r.m]
                 /\ UNCHANGED pull_mod
            ELSE /\ pull_mod' =
                      [k \in DOMAIN pull_mod \cup {model_place_card} |->
                         IF k = model_place_card
                         THEN [loaded |-> IF k \in DOMAIN pull_mod
                                          THEN pull_mod[k].loaded
                                          ELSE db[k],
                               cur |-> r.m]
                         ELSE pull_mod[k]]
                 /\ UNCHANGED pull_new

\* Lines 298-308: the row is skipped when a record awaiting a push has its
\* page id
PullFound(num, found, net1, net2) ==
    IF found.no_change_place_card # 0
    THEN /\ pull_skip' = pull_skip \cup {found.no_change_place_card}
         /\ pull_i' = pull_i - 1
         /\ UNCHANGED <<db, origin, sync_pc, pull_rows, pull_mod,
                        pull_new, pull_net, done>>
    ELSE PullOverwrite(num, found.model_place_card,
                       FromRow(Held(found.model_place_card), num, net1, net2))

PullRow(net1, net2) ==
    /\ sync_pc = "pull"
    /\ pull_i >= 1
    /\ PullFound(pull_rows[pull_i], Lookup(pull_rows[pull_i]), net1, net2)
    /\ UNCHANGED <<ext, current_card, pushVars, quiet, events, fn>>

\* A commit that also deletes the records whose external row the pass did not
\* read
PullCommit_Prunes(outcome) ==
    /\ sync_pc = "pull"
    /\ pull_i = 0
    /\ IF outcome = "ok"
       THEN LET all == [k \in 1..(Len(db) + Len(pull_new)) |-> Seen(k)]
                from == origin \o [j \in 1..Len(pull_new) |-> "pull"]
                ks == KeysInOrder({k \in 1..Len(all) :
                                     \/ Falsy(all[k].id_page)
                                     \/ \E i \in 1..Len(pull_rows) :
                                           pull_rows[i].id = all[k].id_page}, 1)
            IN /\ db' = [n \in 1..Len(ks) |-> all[ks[n]]]
               /\ origin' = [n \in 1..Len(ks) |-> from[ks[n]]]
               /\ done' = PullSummary("commit")
       ELSE /\ Rollback
            /\ done' = PullSummary("abort")
    /\ PullReset
    /\ UNCHANGED <<ext, current_card, pushVars, quiet, events, fn>>

\* _scheduled_task_from_Notion, lines 415-419: session.commit() writes the
\* changed columns of the objects touched and inserts the new ones; when the
\* commit raises ("raise") the except clause rolls the session back
PullCommit(outcome) ==
    /\ sync_pc = "pull"
    /\ pull_i = 0
    /\ IF outcome = "ok"
       THEN /\ db' = [k \in 1..(Len(db) + Len(pull_new)) |-> Seen(k)]
            /\ origin' = origin \o [j \in 1..Len(pull_new) |-> "pull"]
            /\ done' = PullSummary("commit")
       ELSE /\ Rollback
            /\ done' = PullSummary("abort")
    /\ PullReset
    /\ UNCHANGED <<ext, current_card, pushVars, quiet, events, fn>>

(* --------------------------- specification ---------------------------- *)
Next ==
    \/ \E n \in Names \cup BadNames : handle_company_name(n)
    \/ \E f \in EditFields : \E v \in NewValues(f) : handle_new_value(f, v)
    \/ handle_save
    \/ \E i \in 1..Len(ext) : \E v \in ExtNames : ExtEdit(i, "Name", v)
    \/ \E i \in 1..Len(ext) : \E v \in ExtHoursEdits :
          ExtEdit(i, "Hours of Operation", v)
    \/ \E i \in 1..Len(ext) : \E v \in ExtLinks : ExtEdit(i, "Google Map", v)
    \/ \E i \in 1..Len(ext) : ExtDelete(i)
    \/ PushStart
    \/ \E o \in {"ok", "malformed", "raise"} : PushRow(o)
    \/ \E o \in {"ok", "raise"} : PushCommit(o)
    \/ \E o \in {"ok", "raise"} : PullStart(o)
    \/ \E n1, n2 \in NetOutcomes : PullRow(n1, n2)
    \/ \E o \in {"ok", "raise"} : PullCommit(o)

Spec == Init /\ [][Next]_vars

\* The step of a pull pass on its next row, by what it does to the position
\* of the pass: PullRow can be taken whenever a row is left (the row is
\* skipped, or overwrites an object, or ends the pass), and it moves the pass
\* to the row before or ends it.
PullRowTaken ==
    /\ sync_pc = "pull"
    /\ pull_i >= 1
    /\ pull_i' \in {pull_i - 1, 0}
    /\ sync_pc' \in {"pull", "idle"}

\* Notion.sync, lines 153-158: the loop calls schedule.run_pending() every
\* second for ever; each job comes due again and again (every 15 and every 30
\* seconds) and a job that has started runs to its end.
SyncFairness ==
    /\ SF_vars(PushStart)
    /\ SF_vars(\E o \in {"ok", "raise"} : PullStart(o))
    /\ WF_vars(\E o \in {"ok", "malformed", "raise"} : PushRow(o))
    /\ WF_vars(\E o \in {"ok", "raise"} : PushCommit(o))
    /\ WF_<<sync_pc, pull_i>>(PullRowTaken)
    /\ WF_vars(\E o \in {"ok", "raise"} : PullCommit(o))

\* The runs checked for what happens eventually take LiveEvents chat inputs
\* and external edits.
LiveInit == BotInit /\ events = MaxEvents - LiveEvents /\ fn = NoCall

LiveSpec == LiveInit /\ [][Next]_vars /\ SyncFairness

\* A listing of the external table that returns the imported row twice, as a
\* paginated query can when the table changes between its pages: the two
\* entries carry the same id and the values of before and after an edit
EditedRow(id, name, hours, link) ==
    [ExternalRow(id, name) EXCEPT
        !.properties["Hours of Operation"].val = hours,
        !.properties["Google Map"].val = link]

TieTables ==
    {<<ExternalRow(PageIds[1], "Bar Y"),
       EditedRow(PageIds[1], "Bar Z", "10-6",
                 "https://maps.google.com/maps/@9.748917,-83.753428,15z")>>,
     <<EditedRow(PageIds[1], "Bar Z", "10-6",
                 "https://maps.google.com/maps/@9.748917,-83.753428,15z"),
       ExternalRow(PageIds[1], "Bar Y")>>}

TieInit ==
    /\ \E table \in TieTables :
          BotStart(table, <<ExternalRow(PageIds[1], "Bar Y")>>)
    /\ events = MaxEvents - LiveEvents
    /\ fn = NoCall

TieSpec == TieInit /\ [][Next]_vars

\* An external table of two imported rows, the first with a map link, under
\* the scheduler's fairness
StarveTables ==
    {<<EditedRow(PageIds[1], "Bar Y", NoneV,
                 "https://maps.google.com/maps/@9.748917,-83.753428,15z"),
       ExternalRow(PageIds[2], "Bar Z")>>}

StarveInit ==
    /\ \E table \in StarveTables : BotStart(table, table)
    /\ events = MaxEvents - LiveEvents
    /\ fn = NoCall

StarveSpec == StarveInit /\ [][Next]_vars /\ SyncFairness

(* ------------- the helper functions applied on their own -------------- *)
\* The links given to the resolver: a link with the coordinates after "@", a
\* short link, expanded links with one token or with words after "@", with
\* nothing after "@", with the coordinates as a path segment, without
\* coordinates, with "@" in the query only; links of 69 and of 70 characters;
\* an http link; a link with a path segment of a number with six and a number
\* with seven decimals; text that is no link, no text, None
ResolverLinks ==
    {"https://maps.google.com/maps/@9.748917,-83.753428,15z",
     "https://maps.app.goo.gl/abcDEF",
     "https://www.google.com/maps/place/Bar+Y+Playa+Hermosa+Puntarenas/@9.748917",
     "https://www.google.com/maps/place/Bar+Y+Playa+Hermosa+Puntarenas/@north,west,15z",
     "https://www.google.com/maps/place/Bar+Y+Playa+Hermosa+Puntarenas+Costa/@",
     "https://www.google.com/maps/place/Bar+Y+Playa+Hermosa/9.748917,-83.753428/data=1",
     "https://www.google.com/maps/search/Bar+Y+Playa+Hermosa+Puntarenas+Costa+Rica",
     "https://www.google.com/maps/place/Bar+Y+Playa+Hermosa+Puntarenas+Costa?q=/@1.5,2.5",
     "https://www.google.com/maps/place/Bar+Y+Play/@9.748917,-83.753428,15z",
     "https://www.google.com/maps/place/Bar+Y+Playa/@9.748917,-83.753428,15z",
     "http://maps.google.com/maps/@9.748917,-83.753428,15z",
     "https://www.google.com/maps/place/Bar+Y+Playa+Hermosa/9.748917,-83.7534281/data=1",
     "not a link", "", NoneV}

ResolverCalls ==
    {[op |-> "get_coordinates_from_link", called |-> FALSE, url |-> url,
      net |-> net, out |-> NoCoordinates] :
        url \in ResolverLinks, net \in NetOutcomes}

\* self.get_coordinates_from_link(url)
ApplyResolver ==
    /\ fn.op = "get_coordinates_from_link"
    /\ ~fn.called
    /\ fn' = [fn EXCEPT !.called = TRUE,
                        !.out = get_coordinates_from_link(fn.url, fn.net)]
    /\ UNCHANGED botVars

\* The structures given to search_by_key: sample_data of the tests; cells as
\* the API returns them (a title, an empty title, a select, a url); a key that
\* occurs under itself, below and after another key, and inside nested lists;
\* a text
sample_data ==
    Dict(<<Item("key1", Leaf("value1")),
           Item("key2", Dict(<<Item("nested_key", Leaf("nested_value"))>>)),
           Item("key3", List(<<Dict(<<Item("inner_key", Leaf("inner_value"))>>)>>))>>)

SearchSamples ==
    {sample_data,
     Response([kind |-> "title", val |-> "Bar Y"]),
     Response([kind |-> "title", val |-> NoneV]),
     Response([kind |-> "select", val |-> "Services"]),
     Response([kind |-> "url", val |-> NoneV]),
     Dict(<<Item("name", Dict(<<Item("name", Leaf("inner"))>>)),
            Item("key1", Leaf("later"))>>),
     Dict(<<Item("key2", Dict(<<Item("key1", Leaf("deep"))>>)),
            Item("key1", Leaf("top"))>>),
     List(<<List(<<Dict(<<Item("url", Leaf("first"))>>)>>),
            Dict(<<Item("url", Leaf("second"))>>)>>),
     Leaf("plain_text")}

SearchKeys == {"key1", "nested_key", "inner_key", "non_existing_key",
               "plain_text", "name", "url", "type"}

SearchCalls ==
    {[op |-> "search_by_key", called |-> FALSE, dictionary |-> d, key |-> k,
      out |-> Leaf(NoneV)] : d \in SearchSamples, k \in SearchKeys}

\* search_by_key(dictionary, key)
ApplySearch ==
    /\ fn.op = "search_by_key"
    /\ ~fn.called
    /\ fn' = [fn EXCEPT !.called = TRUE,
                        !.out = search_by_key(fn.dictionary, fn.key)]
    /\ UNCHANGED botVars

\* The records sent through the Field Mapper: a name, and each other business
\* field filled or empty
FilledValue(field) ==
    CASE field = "Name" -> "Cafe X"
      [] field = "type" -> "Services"
      [] field = "ID" -> "7"
      [] field = "photo" -> "https://drive.google.com/drive/folders/x"
      [] field = "location" -> "Tamarindo"
      [] field = "google_map" -> "https://maps.app.goo.gl/abcDEF"
      [] field = "phone_number" -> "+506 1111"
      [] field = "whatsapp" -> "+506 2222"
      [] field = "hours_of_operation" -> "9-5"
      [] OTHER -> "+506 3333"

MapperRecord(filled) ==
    [f \in Fields |->
        IF f \in {"is_new", "is_updated"} THEN FALSE
        ELSE IF f \in filled THEN FilledValue(f)
        ELSE ""]

MapperRecords ==
    {MapperRecord(filled \cup {"Name"}) :
        filled \in SUBSET {"type", "ID", "photo", "location", "google_map",
                           "phone_number", "whatsapp", "hours_of_operation",
                           "manager_phone_number"}}

MapperCalls ==
    {[op |-> "round_trip", called |-> FALSE, record |-> r,
      out |-> [raised |-> FALSE, m |-> Transient]] : r \in MapperRecords}

\* The record sent to an empty external table by update_or_insert_row and read
\* back into a new ModelPlaceCard() by the loop of the pull pass
round_trip(record) ==
    LET properties == FormatAll(to_dict(record))
        rows == update_or_insert_row(<<>>, record.id_page, to_dict(record), 0)
        r == FromRow(Transient, rows[1], "ok", "ok")
    IN IF Accepts(properties) THEN [raised |-> r.raised, m |-> r.m]
       ELSE [raised |-> TRUE, m |-> Transient]

ApplyMapper ==
    /\ fn.op = "round_trip"
    /\ ~fn.called
    /\ fn' = [fn EXCEPT !.called = TRUE, !.out = round_trip(fn.record)]
    /\ UNCHANGED botVars

\* The cards given to handle_new_value: a card with a name only, a card with
\* every field filled
EditCalls ==
    {[op |-> "handle_new_value", called |-> FALSE, card |-> card,
      field_to_update |-> f, new_value |-> v,
      out |-> [card |-> card, reply |-> "none"]] :
        card \in {MapperRecord({"Name"}), MapperRecord(Fields)},
        f \in EditFields, v \in Names \cup BadNames \cup EditNames \cup Types
                                 \cup BadTypes \cup Links \cup BadLinks}

\* handle_new_value(update, context) with user_data["current_card"] = card
ApplyEdit ==
    /\ fn.op = "handle_new_value"
    /\ ~fn.called
    /\ fn' = [fn EXCEPT !.called = TRUE,
                        !.out = new_value_result(fn.card, fn.field_to_update,
                                                 fn.new_value)]
    /\ UNCHANGED botVars

\* How often find_company_by_name is called in a row
MaxCalls == 3

\* A Record Store that always adds a record
find_company_by_name_NoLookup(table, name) ==
    [table |-> Append(table, ModelPlaceCard([Transient EXCEPT !.Name = name],
                                            Fields \ {"Name"})),
     company |-> Len(table) + 1]

\* find_company_by_name on the Record Store table: the id_key of the first
\* record with the name; on a miss a record with the name alone is inserted
find_company_by_name(table, name) ==
    LET S == {k \in 1..Len(table) : table[k].Name = name}
    IN IF S # {}
       THEN [table |-> table, company |-> CHOOSE k \in S : \A j \in S : k <= j]
       ELSE [table |-> Append(table,
                              ModelPlaceCard([Transient EXCEPT !.Name = name],
                                             Fields \ {"Name"})),
             company |-> Len(table) + 1]

Named(name) == [MapperRecord(Fields) EXCEPT !.Name = name]

\* The Record Stores find_company_by_name is called on: empty, one record,
\* two records with different names, two records with the same name
FindTables ==
    {<<>>, <<Named("Bar Y")>>, <<Named("Cafe X")>>,
     <<Named("Bar Y"), Named("Cafe X")>>, <<Named("Bar Y"), Named("Bar Y")>>}

FindCalls ==
    {[op |-> "find_company_by_name", calls |-> 0, name |-> name,
      before |-> table, table |-> table, out |-> 0] :
        table \in FindTables, name \in {"Bar Y", "Cafe X", "Soda Z"}}

\* find_company_by_name(name), called again and again
ApplyFind ==
    /\ fn.op = "find_company_by_name"
    /\ fn.calls < MaxCalls
    /\ LET r == find_company_by_name(fn.table, fn.name)
       IN fn' = [fn EXCEPT !.calls = @ + 1, !.table = r.table,
                           !.out = r.company]
    /\ UNCHANGED botVars

\* A row of the external table with every cell filled, the business number n
FullRow(id, n) ==
    [id |-> id, src |-> 0, archived |-> FALSE,
     properties |->
        [c \in Columns |->
            [kind |-> ColumnKind(c),
             val |-> CASE c = "Name" -> "Cafe X"
                       [] c = "Type" -> "Services"
                       [] c = "ID" -> n
                       [] c = "Photo Google Drive" -> "https://drive.google.com/drive/folders/x"
                       [] c = "Location" -> "Tamarindo"
                       [] c = "Google Map" -> "https://maps.app.goo.gl/abcDEF"
                       [] c = "Phone Number" -> "+506 1111"
                       [] c = "WhatsApp Number" -> "+506 2222"
                       [] c = "Hours of Operation" -> "9-5"
                       [] OTHER -> "John Doe"]]]

\* The external tables init_db imports: empty, one row, a full row, two rows,
\* three rows, a table with a deleted row
ImportTables ==
    {<<>>, <<ExternalRow(PageIds[1], "Bar Y")>>, <<FullRow(PageIds[1], "7")>>,
     <<ExternalRow(PageIds[1], "Bar Y"), FullRow(PageIds[2], "7")>>,
     <<FullRow(PageIds[1], "7"), ExternalRow(PageIds[2], "Bar Y"),
       FullRow(PageIds[3], "8")>>,
     <<[ExternalRow(PageIds[1], "Bar Y") EXCEPT !.archived = TRUE],
       FullRow(PageIds[2], "7")>>}

ImportCalls ==
    {[op |-> "update_database_from_notion", called |-> FALSE, rows |-> rows,
      out |-> <<>>] : rows \in ImportTables}

\* update_database_from_notion(API_ID, DATABASE_ID) on an empty Record Store
ApplyImport ==
    /\ fn.op = "update_database_from_notion"
    /\ ~fn.called
    /\ fn' = [fn EXCEPT !.called = TRUE,
                        !.out = update_database_from_notion(read_all_rows(fn.rows))]
    /\ UNCHANGED botVars

\* The record handle_company_name creates for a new name
FrontRecord(name) ==
    ModelPlaceCard([Transient EXCEPT !.Name = name], Fields \ {"Name"})

\* The Record Stores handle_save is called on: two records created by the
\* front end; two imported records with different business numbers; an
\* imported record and one created by the front end
SaveTables ==
    {<<FrontRecord("Cafe X"), FrontRecord("Bar Y")>>,
     update_database_from_notion(<<FullRow(PageIds[1], "7"),
                                   ExternalRow(PageIds[2], "Bar Y")>>),
     update_database_from_notion(<<ExternalRow(PageIds[1], "Bar Y")>>)
        \o <<FrontRecord("Cafe X")>>}

\* The user loaded record key, typed new hours and pressed Save
SaveCalls ==
    {[op |-> "handle_save", called |-> FALSE, table |-> table, key |-> 1,
      card |-> [table[1] EXCEPT !.hours_of_operation = "9-5"], out |-> table] :
        table \in SaveTables}
    \cup
    {[op |-> "handle_save", called |-> FALSE, table |-> table, key |-> 2,
      card |-> [table[2] EXCEPT !.hours_of_operation = "9-5"], out |-> table] :
        table \in SaveTables}

\* handle_save(update, context) with user_data["current_card"] = card
ApplySave ==
    /\ fn.op = "handle_save"
    /\ ~fn.called
    /\ fn' = [fn EXCEPT !.called = TRUE,
                        !.out = save_place_card(fn.table, fn.card)]
    /\ UNCHANGED botVars

\* Python values of the types format_property tells apart, each with its type
\* and the text it is written as: a str, a list of names, a bool, an int, a
\* dict with a name (v is the name), a float, None
PyValues ==
    {[t |-> "str", v |-> "Tamarindo"], [t |-> "list", v |-> "['bar', 'cafe']"],
     [t |-> "bool", v |-> "True"], [t |-> "bool", v |-> "False"],
     [t |-> "int", v |-> "7"], [t |-> "int", v |-> "0"], [t |-> "int", v |-> "1"],
     [t |-> "dict", v |-> "Services"], [t |-> "float", v |-> "9.5"],
     [t |-> "NoneType", v |-> "None"]}

\* isinstance(value, type): bool is a subclass of int
isinstance(value, type) ==
    value.t = type \/ (type = "int" /\ value.t = "bool")

\* Lines 133-143 with the test for int before the test for bool
format_by_type_IntFirst(value) ==
    IF isinstance(value, "str") THEN [kind |-> "rich_text", val |-> value.v]
    ELSE IF isinstance(value, "list") THEN [kind |-> "multi_select", val |-> value.v]
    ELSE IF isinstance(value, "int") THEN [kind |-> "number", val |-> value.v]
    ELSE IF isinstance(value, "bool") THEN [kind |-> "checkbox", val |-> value.v]
    ELSE IF isinstance(value, "dict") THEN [kind |-> "select", val |-> value.v]
    ELSE [kind |-> "rich_text", val |-> value.v]

\* Notion.format_property, lines 133-143: a column without a rule of its own
\* is formatted by the type of its value (str(value) in the last branch)
format_by_type(value) ==
    IF isinstance(value, "str") THEN [kind |-> "rich_text", val |-> value.v]
    ELSE IF isinstance(value, "list") THEN [kind |-> "multi_select", val |-> value.v]
    ELSE IF isinstance(value, "bool") THEN [kind |-> "checkbox", val |-> value.v]
    ELSE IF isinstance(value, "int") THEN [kind |-> "number", val |-> value.v]
    ELSE IF isinstance(value, "dict") THEN [kind |-> "select", val |-> value.v]
    ELSE [kind |-> "rich_text", val |-> value.v]

\* Notion.format_property for a value of any type: the columns with a rule of
\* their own (lines 115-131), the others by the type of the value
format_property_of(column_name, value) ==
    IF column_name \in Columns \ {"ID", "Location"}
    THEN [kind |-> format_property(column_name, "").kind, val |-> value.v]
    ELSE format_by_type(value)

FormatCalls ==
    {[op |-> "format_property", called |-> FALSE, column_name |-> c,
      value |-> v, out |-> [kind |-> "none", val |-> ""]] :
        c \in Columns \cup {"Visited"}, v \in PyValues}

\* self.format_property(column_name, value)
ApplyFormat ==
    /\ fn.op = "format_property"
    /\ ~fn.called
    /\ fn' = [fn EXCEPT !.called = TRUE,
                        !.out = format_property_of(fn.column_name, fn.value)]
    /\ UNCHANGED botVars

\* send_venue_list, line 905
LEN_LIST == 3

\* send_venue_list, lines 905-984, on the user data of one chat: the places
\* found are numbered from 1; max_page is a float in the code and is held
\* here in units of 1 / LEN_LIST, so that len / LEN_LIST - 1 is len - LEN_LIST
\* and page is compared with it as LEN_LIST * page; -1 stands for a missing
\* max_page key.  The elif of lines 916-918 tests the local max_page, which is
\* 0 there, and never runs.  reply_markup is the keyboard sent: its place
\* rows, whether it has the < > row and the Exit row; sent says whether a
\* message with a keyboard, with none (reply_markup = None) or the
\* "No places" text was sent.  shown collects the places shown so far.
send_venue_list(user_data) ==
    LET page == user_data.page
        places_list == user_data.places_list
        start_id == page * LEN_LIST
        end_id == start_id + LEN_LIST
        places(from, to) ==
            SubSeq(places_list, from + 1,
                   IF to < Len(places_list) THEN to ELSE Len(places_list))
        max_page == IF Len(places_list) >= LEN_LIST
                    THEN Len(places_list) - LEN_LIST
                    ELSE 0
        keyboard == IF LEN_LIST * page < max_page
                    THEN places(start_id, end_id)
                    ELSE IF LEN_LIST * page = max_page
                    THEN places(start_id, Len(places_list))
                    ELSE <<>>
        reply_markup ==
            IF Len(places_list) <= LEN_LIST
            THEN [places |-> keyboard, nav |-> FALSE, exit |-> TRUE]
            ELSE IF LEN_LIST * page <= max_page
            THEN [places |-> keyboard, nav |-> TRUE, exit |-> TRUE]
            ELSE [places |-> <<>>, nav |-> FALSE, exit |-> FALSE]
    IN IF places_list = <<>>
       THEN [user_data EXCEPT !.sent = "No places"]
       ELSE [user_data EXCEPT
               !.max_page = IF user_data.max_page = -1 THEN max_page
                            ELSE user_data.max_page,
               !.reply_markup = reply_markup,
               !.sent = IF Len(places_list) <= LEN_LIST
                           \/ LEN_LIST * page <= max_page
                        THEN "keyboard" ELSE "None",
               !.shown = user_data.shown
                         \cup {reply_markup.places[i] :
                                  i \in 1..Len(reply_markup.places)}]

\* The user data when take_radius has the places of radius_list: page 0 from
\* handle_location (line 850), between 0 and MaxPlaces places
VenueCalls ==
    {[op |-> "take_radius", called |-> FALSE, page |-> 0, max_page |-> -1,
      places_list |-> [i \in 1..n |-> i],
      reply_markup |-> [places |-> <<>>, nav |-> FALSE, exit |-> FALSE],
      sent |-> "nothing", shown |-> {}] : n \in 0..MaxPlaces}

\* take_radius, lines 1002-1017: the list is stored and rendered
take_radius ==
    /\ fn.op = "take_radius"
    /\ ~fn.called
    /\ fn' = send_venue_list([fn EXCEPT !.called = TRUE])
    /\ UNCHANGED botVars

\* prev_next_button, lines 1031-1047, for a press of the button pos of the
\* keyboard on screen
prev_next_button(pos) ==
    /\ fn.op = "take_radius"
    /\ fn.called
    /\ fn.sent = "keyboard" /\ fn.reply_markup.nav
    /\ LET current_page == fn.page
           user_max_page == fn.max_page
       IN fn' = send_venue_list(
                  [fn EXCEPT !.page =
                      IF pos = "next"
                      THEN IF LEN_LIST * current_page < user_max_page
                           THEN current_page + 1
                           ELSE current_page
                      ELSE IF current_page > 0 THEN current_page - 1
                           ELSE 0])
    /\ UNCHANGED botVars

FnCalls ==
    ResolverCalls \cup SearchCalls \cup MapperCalls \cup EditCalls
    \cup FindCalls \cup ImportCalls \cup SaveCalls \cup FormatCalls
    \cup VenueCalls

FnInit == BotInit /\ events = 0 /\ fn \in FnCalls

FnNext ==
    \/ ApplyResolver
    \/ ApplySearch
    \/ ApplyMapper
    \/ ApplyEdit
    \/ ApplyFind
    \/ ApplyImport
    \/ ApplySave
    \/ ApplyFormat
    \/ take_radius
    \/ \E pos \in {"next", "prev"} : prev_next_button(pos)

FnSpec == FnInit /\ [][FnNext]_vars

(* ------------------------------ claims -------------------------------- *)
Keys == 1..Len(db)

\* The external rows created by a push for local record k
RowsFor(k) == {i \in 1..Len(ext) : ext[i].src = k}

\* A step of the sync thread (chat and external-editor steps count an event)
SyncStep == events' = events

PullRowStep == sync_pc = "pull" /\ pull_i >= 1 /\ SyncStep
PullCommitStep == sync_pc = "pull" /\ SyncStep /\ done'.kind = "pull" /\ done'.result = "commit"
PushStartStep == sync_pc = "idle" /\ sync_pc' = "push"
PushCommitStep == sync_pc = "push" /\ SyncStep /\ done'.kind = "push" /\ done'.result = "commit"

\* C1: when the pull pass processes an external row whose id is the id_page of
\* a local record that has is_updated = true at that moment, the pass changes
\* no field of that record: the step leaves the session's copy of the record
\* as it was, and the commit writes only records the session changed.
C1_PullPrecedence ==
    [][/\ PullRowStep =>
            \A k \in Keys :
               (Seen(k).id_page = pull_rows[pull_i].id /\ Seen(k).is_updated)
               => /\ k \in DOMAIN pull_mod' => k \in DOMAIN pull_mod
                  /\ k \in DOMAIN pull_mod => pull_mod'[k] = pull_mod[k]
       /\ PullCommitStep =>
            \A k \in Keys : (k \notin DOMAIN pull_mod /\ k \in pull_skip) => db'[k] = db[k]
      ]_vars

\* C1 witness: a pull pass has committed after skipping a record with a pending
\* local edit whose Name differs from the Name of its external row
C1_Witness ==
    /\ done.kind = "pull" /\ done.result = "commit"
    /\ \E k \in done.skipped : \E i \in 1..Len(done.rows) :
          /\ done.rows[i].id = db[k].id_page
          /\ db[k].is_updated
          /\ Extracted(done.rows[i].properties["Name"], "plain_text") # db[k].Name

\* C2: the work list of a push pass is exactly the records with is_new or
\* is_updated at pass start; at the commit every record whose upsert answered
\* successfully has both flags false, and no record outside the work list is
\* written.
C2_PushWorkListAndFlags ==
    [][/\ PushStartStep =>
            {push_rows'[n].key : n \in 1..Len(push_rows')} = {k \in Keys : Dirty(db[k])}
       /\ PushCommitStep =>
            /\ \A k \in push_ok : ~db'[k].is_new /\ ~db'[k].is_updated
            /\ \A k \in Keys \ WorkKeys : db'[k] = db[k]
      ]_vars

\* C2 witness: a push pass has committed with a successful upsert while a
\* record outside its work list existed
C2_Witness ==
    /\ done.kind = "push" /\ done.result = "commit"
    /\ done.ok # {}
    /\ Keys \ done.work # {}

\* C3 (as claimed): after a committed push pass, a record pushed successfully
\* for which the pass created an external row carries that row's id as
\* id_page; and a non-empty id_page never changes.
C3_IdPageSetByPush ==
    (done.kind = "push" /\ done.result = "commit")
    => \A i \in 1..Len(ext) :
          (i > done.start /\ ext[i].src \in done.ok)
          => db[ext[i].src].id_page = ext[i].id

C5_AtMostOneRowPerRecord ==
    \A k \in Keys : Cardinality(RowsFor(k)) <= 1

\* C6 (as claimed): after a pull pass commits, a front-end record that was
\* pushed and has no pending edit holds the Hours of Operation an external
\* editor gave to the row created for it, as read by that pass.
C6_PullUpdatesPushedRecord ==
    (done.kind = "pull" /\ done.result = "commit")
    => \A i \in 1..Len(done.rows) :
          LET k == done.rows[i].src
          IN (k # 0 /\ origin[k] = "front" /\ ~db[k].is_updated
              /\ Cardinality(RowsFor(k)) = 1
              /\ done.rows[i].properties["Hours of Operation"].val \in ExtHoursValues)
             => db[k].hours_of_operation =
                   Extracted(done.rows[i].properties["Hours of Operation"],
                                 "plain_text")

\* C7 (as claimed): a record created by the front end has is_new = true until
\* it is pushed successfully.
C7_NewUntilPushed ==
    \A k \in Keys : (origin[k] = "front" /\ RowsFor(k) = {}) => db[k].is_new

\* C8 (as claimed): a record created by a front-end lookup miss is a push
\* candidate from its creation until an external row exists for it, whether
\* or not the user saves it.
C8_CreatedIsPushCandidate ==
    \A k \in Keys : (origin[k] = "front" /\ RowsFor(k) = {}) => Dirty(db[k])

\* C9 (as claimed): after a push pass in which the upsert of a record failed,
\* with no local write since the pass started, every record whose own upsert
\* succeeded has its flags cleared.
C9_PushBatchIsolation ==
    (done.kind = "push" /\ quiet /\ done.failed # {})
    => \A k \in done.ok : ~db[k].is_new /\ ~db[k].is_updated

\* C10: no step of a pull pass other than its commit writes the Record Store;
\* in particular the step on which the pass fails leaves the store as it is,
\* so nothing the pass created or overwrote is persisted.
C10_PullAtomic ==
    [][(sync_pc = "pull" /\ SyncStep /\ ~PullCommitStep)
       => (db' = db /\ origin' = origin)]_vars

\* C10 witness: a pull pass has failed after it had created or changed an
\* object in its session
C10_Witness ==
    /\ done.kind = "pull" /\ done.result = "abort"
    /\ (done.created > 0 \/ done.work # {})

\* The keys of the records a committed pull pass skipped, overwrote, created
SkippedRow(id) == \E k \in done.skipped : db[k].id_page = id

\* Two texts are the same value, an empty text and no text being the same
Same(a, b) == a = b \/ (Falsy(a) /\ Falsy(b))

\* C11 (as claimed): after a pull pass that committed, with no front-end write
\* since it started, every external row it read whose local record was absent
\* or not dirty has a local record with that id_page whose ten business fields
\* equal the values extracted from the row.
C11_PullOverwrite ==
    (done.kind = "pull" /\ done.result = "commit" /\ quiet)
    => \A i \in 1..Len(done.rows) :
          LET num == done.rows[i]
              P == num.properties
          IN ~SkippedRow(num.id)
             => \E k \in Keys :
                   /\ db[k].id_page = num.id
                   /\ db[k].Name = Extracted(P["Name"], "plain_text")
                   /\ db[k].type = Extracted(P["Type"], "name")
                   /\ db[k].ID = Extracted(P["ID"], "number")
                   /\ db[k].photo = Extracted(P["Photo Google Drive"], "url")
                   /\ db[k].location = FromRowLocation(Transient, num).location
                   /\ Same(db[k].google_map, Extracted(P["Google Map"], "url"))
                   /\ db[k].phone_number = Extracted(P["Phone Number"], "plain_text")
                   /\ db[k].whatsapp = Extracted(P["WhatsApp Number"], "plain_text")
                   /\ db[k].hours_of_operation =
                         Extracted(P["Hours of Operation"], "plain_text")
                   /\ db[k].manager_phone_number =
                         Extracted(P["Owner / Manager"], "plain_text")

\* The records a committed pull pass created (no record was created since)
CreatedKeys == (Len(db) - done.created + 1)..Len(db)

SavedDuringPushKept ==
    PushCommitStep
    => \A k \in push_ok :
          (/\ db[k].is_updated
           /\ \E f \in SavedFields :
                 db[k][f] # push_rows[LoadedBy(push_rows, k)].rec[f])
          => db'[k].is_updated

\* A pull commit leaves the saved fields of a record saved after the pass
\* loaded it
SavedDuringPullKept ==
    PullCommitStep
    => \A k \in DOMAIN pull_mod :
          (db[k].is_updated /\ ~pull_mod[k].loaded.is_updated)
          => \A f \in SavedFields : db'[k][f] = db[k][f]

\* C13 (as claimed): a Save that commits while a pass is running is not lost:
\* the commit of a push pass that sent the values from before the Save leaves
\* is_updated = true, and the commit of a pull pass does not replace the saved
\* values by the external ones.
C13_NoClobbering ==
    [][SavedDuringPushKept /\ SavedDuringPullKept]_vars

\* The links of the model and the coordinates text stored for a link that
\* resolves
ModelLinks == Links \cup (ExtLinks \ {NoneV})
Resolved(link) == CoordinatesText(get_coordinates_from_link(link, "ok"))

\* C14 (as claimed): after a pull pass that committed, with no front-end write
\* since it started, a record the pass processed that has a map link does not
\* hold the coordinates of another link, unless the resolver was asked in this
\* pass and found no coordinates.
C14_CoordinatesFollowLink ==
    (done.kind = "pull" /\ done.result = "commit" /\ quiet)
    => \A id \in DOMAIN done.net : \A k \in Keys :
          (/\ db[k].id_page = id
           /\ db[k].google_map \in ModelLinks
           /\ \E link \in ModelLinks :
                 link # db[k].google_map /\ db[k].coordinates = Resolved(link))
          => "none" \in {done.net[id].first, done.net[id].second}

\* The resolver was asked during the overwrite and gave no coordinates
Unresolved(n) ==
    /\ "pair" \notin {n.first, n.second}
    /\ {n.first, n.second} \cap {"none", "raise"} # {}

\* A record had no coordinates: none at all, or the sentinel
NoPrior(c) == Falsy(c) \/ c = "Bad url"

C16_ResolverNeverRaises ==
    (fn.op = "get_coordinates_from_link" /\ fn.called) => fn.out.tag # "raise"

\* C17 (as claimed): for the link with "@9.748917,-83.753428,15z" the resolver
\* returns (9.748917, -83.753428) whatever its request meets, and for the short
\* link it returns the coordinates of the URL the redirect leads to whenever
\* the redirect is followed.
C17_CoordinateExtraction ==
    (fn.op = "get_coordinates_from_link" /\ fn.called)
    => /\ fn.url = "https://maps.google.com/maps/@9.748917,-83.753428,15z"
             => fn.out = Pair("9.748917", "-83.753428")
       /\ (fn.url = "https://maps.app.goo.gl/abcDEF" /\ fn.net = "ok")
             => fn.out = Pair("10.123456", "-84.654321")

\* The children of a mapping or sequence, in the order of the document
Child(d, i) == IF d.t = "dict" THEN d.items[i].v ELSE d.items[i]

RECURSIVE Occurrences(_, _)
\* The places of a structure where key is a key of a mapping: the path of
\* child indexes leading to the value stored under it
Occurrences(d, key) ==
    IF d.t \notin {"dict", "list"} THEN {}
    ELSE UNION {
            (IF d.t = "dict" /\ d.items[i].k = key THEN {<<i>>} ELSE {})
            \cup {<<i>> \o path : path \in Occurrences(Child(d, i), key)}
         : i \in 1..Len(d.items)}

RECURSIVE ValueAt(_, _)
ValueAt(d, path) ==
    IF Len(path) = 1 THEN Child(d, path[1])
    ELSE ValueAt(Child(d, path[1]), Tail(path))

\* path p comes before path q in a depth-first traversal in document order: it
\* leads to q, or it turns to an earlier child where the two part
Before(p, q) ==
    \/ Len(p) < Len(q) /\ SubSeq(q, 1, Len(p)) = p
    \/ \E i \in 1..Len(p) :
          /\ i <= Len(q)
          /\ SubSeq(p, 1, i - 1) = SubSeq(q, 1, i - 1)
          /\ p[i] < q[i]

BusinessFields == SavedFields \cup {"ID"}

\* C18 (as claimed): a record sent to the external table through to_dict and
\* format_property and read back through the extraction of the pull pass has
\* every business field that was filled with its original value.
C18_RoundTrip ==
    (fn.op = "round_trip" /\ fn.called)
    => /\ ~fn.out.raised
       /\ \A f \in BusinessFields :
             ~Falsy(fn.record[f]) => fn.out.m[f] = fn.record[f]

\* The fields read from a title, rich_text or select cell, with the column
\* and the leaf searched for; an empty cell of these types has no such leaf
LeafFields ==
    {[field |-> "Name", column |-> "Name", key |-> "plain_text"],
     [field |-> "type", column |-> "Type", key |-> "name"],
     [field |-> "phone_number", column |-> "Phone Number", key |-> "plain_text"],
     [field |-> "whatsapp", column |-> "WhatsApp Number", key |-> "plain_text"],
     [field |-> "hours_of_operation", column |-> "Hours of Operation",
      key |-> "plain_text"],
     [field |-> "manager_phone_number", column |-> "Owner / Manager",
      key |-> "plain_text"]}

\* C20 (as claimed): when a pull pass commits, a record it overwrote keeps, in
\* every field whose leaf occurs nowhere in the value of the row's cell, the
\* value it had before.
C20_AbsentLeafUntouched ==
    [][PullCommitStep
       => \A k \in DOMAIN pull_mod : \A i \in 1..Len(pull_rows) :
             pull_rows[i].id = db[k].id_page
             => \A lf \in LeafFields :
                   recursive_search(Response(pull_rows[i].properties[lf.column]),
                                    lf.key) = <<>>
                   => db'[k][lf.field] = db[k][lf.field]]_vars

\* C21 (as claimed): after a pull pass that committed, with no front-end write
\* since it started, every record the pass overwrote or created from a row
\* whose Type (respectively Location) has no selection holds the text
\* "Not specified" in type (respectively location).
C21_SelectNotSpecified ==
    (done.kind = "pull" /\ done.result = "commit" /\ quiet)
    => \A i \in 1..Len(done.rows) : \A k \in Keys :
          LET num == done.rows[i]
          IN (~SkippedRow(num.id) /\ db[k].id_page = num.id)
             => /\ num.properties["Type"].val = NoneV
                   => db[k].type = "Not specified"
                /\ num.properties["Location"].val = NoneV
                   => db[k].location = "Not specified"

\* C22 (as claimed): when a push pass ended without its commit after the
\* upsert of a record had succeeded, the push pass that follows creates no
\* external row for that record.
C22_RePushCreatesNoRow ==
    \A k \in done.lost : \A i \in RowsFor(k) : i <= done.start

\* A pull pass is running, or has just failed
PullRuns == sync_pc = "pull" \/ (done.kind = "pull" /\ done.result = "abort")

FailedStep ==
    \/ done'.result = "abort" /\ done' # done
    \/ sync_pc = "push" /\ push_i' = push_i + 1 /\ push_ok' = push_ok

\* A step of the sync thread on which nothing fails
QuietStep == SyncStep /\ ~FailedStep

\* The external row of record r was deleted by an external editor
Orphaned(r) == \E i \in 1..Len(ext) : ext[i].id = r.id_page /\ ext[i].archived

\* Record r has an external row that carries its field values
Mirrored(r) ==
    \E i \in Listed(ext) :
       /\ ext[i].id = r.id_page
       /\ Same(r.Name, ext[i].properties["Name"].val)
       /\ Same(r.type, ext[i].properties["Type"].val)
       /\ Same(r.google_map, ext[i].properties["Google Map"].val)
       /\ Same(r.hours_of_operation, ext[i].properties["Hours of Operation"].val)

Consistent ==
    \A k \in Keys : ~Orphaned(db[k]) => (~Dirty(db[k]) /\ Mirrored(db[k]))

\* C23 (as claimed): if from some point on there is no chat input and no
\* external edit and no step of a pass fails, then eventually and for ever no
\* local record is dirty and every local record (other than one whose
\* external row was deleted) has an id_page whose external row carries the
\* record's Name, type, Google Map link and Hours of Operation.
C23_EventualConsistency ==
    (<>[][QuietStep]_vars) => <>[]Consistent

\* A step that starts a push pass, a step that starts a pull pass
StartsPush == sync_pc' = "push" /\ push_i' = 1 /\ (sync_pc # "push" \/ push_i # 1)
StartsPull == sync_pc' = "pull" /\ sync_pc # "pull"

\* No session of a pass holds anything
NoPassOpen ==
    /\ push_rows = <<>> /\ push_i = 0 /\ push_ok = {}
    /\ pull_rows = <<>> /\ pull_i = 0 /\ pull_mod = <<>> /\ pull_new = <<>>

\* C25: at every moment at most one pass is in progress: while the thread is
\* in a push pass no pull session is open and conversely, and between passes
\* no session is open; a push pass (a pull pass) starts only when no pass is in
\* progress, and a pass in progress ends only by completing or failing, which
\* leaves the thread between passes.
C25_NoOverlap ==
    /\ [](/\ sync_pc \in {"idle", "push", "pull"}
          /\ sync_pc = "idle" => NoPassOpen
          /\ sync_pc = "push" => (pull_rows = <<>> /\ pull_mod = <<>> /\ pull_new = <<>>)
          /\ sync_pc = "pull" => (push_rows = <<>> /\ push_i = 0 /\ push_ok = {}))
    /\ [][/\ StartsPush => (sync_pc = "idle" /\ NoPassOpen)
          /\ StartsPull => (sync_pc = "idle" /\ NoPassOpen)
          /\ (sync_pc = "push" /\ sync_pc' # "push")
             => (sync_pc' = "idle" /\ done'.kind = "push"
                 /\ done'.result \in {"commit", "abort"})
          /\ (sync_pc = "pull" /\ sync_pc' # "pull")
             => (sync_pc' = "idle" /\ done'.kind = "pull"
                 /\ done'.result \in {"commit", "abort"})
         ]_vars

\* C25 witness: a push pass has started directly after a push pass that
\* completed, and has not finished
C25_Witness ==
    /\ sync_pc = "push"
    /\ done.second

\* C26: no step of a push pass or of a pull pass removes a local record: the
\* Record Store holds after the step every id_key it held before, with the
\* origin it had, also when an external row has disappeared from the listing.
C26_SyncNeverDeletes ==
    [][(sync_pc # "idle" /\ SyncStep)
       => /\ Len(db') >= Len(db)
          /\ \A k \in Keys : origin'[k] = origin[k] /\ db'[k].ID = db[k].ID
      ]_vars

\* C26 witness: a pull pass has committed that read no row for the id_page of
\* a local record, the row having been deleted by an external editor
C26_Witness ==
    /\ done.kind = "pull" /\ done.result = "commit"
    /\ \E k \in Keys :
          /\ Orphaned(db[k])
          /\ \A i \in 1..Len(done.rows) : done.rows[i].id # db[k].id_page

\* The values the claim calls invalid for a field: a name with a character
\* outside the allowed set, a type outside the three categories, a map link
\* not of the accepted form
InvalidFor(field) ==
    CASE field = "Name" -> BadNames
      [] field = "type" -> BadTypes
      [] field = "google_map" -> BadLinks
      [] OTHER -> {}

\* C27: when handle_new_value is given an invalid value for the field being
\* edited, the card it leaves in the chat session equals the card it found,
\* the user is told the value is invalid, and the handler writes nothing to
\* the Record Store.
C27_InvalidValueKeepsCard ==
    /\ []((fn.op = "handle_new_value" /\ fn.called
            /\ fn.new_value \in InvalidFor(fn.field_to_update))
          => (fn.out.card = fn.card /\ fn.out.reply = "invalid"))
    /\ [][fn.op = "handle_new_value" => (db' = db /\ origin' = origin)]_vars

\* C27 witness: handle_new_value has been given a type outside the three
\* categories for a card that has a type
C27_Witness ==
    /\ fn.op = "handle_new_value" /\ fn.called
    /\ fn.field_to_update = "type" /\ fn.new_value \in BadTypes
    /\ fn.card.type \in valid_types

\* C28: after one or more calls of find_company_by_name(name) in a row, the
\* record returned has the Name name; a record was created exactly when no
\* record had that Name before the first call, and only one; the records that
\* existed are as they were; and when at most one record had the Name before,
\* exactly one has it now.
C28_FindOrCreate ==
    (fn.op = "find_company_by_name" /\ fn.calls >= 1)
    => LET before == {k \in 1..Len(fn.before) : fn.before[k].Name = fn.name}
           after == {k \in 1..Len(fn.table) : fn.table[k].Name = fn.name}
       IN /\ fn.out \in 1..Len(fn.table)
          /\ fn.table[fn.out].Name = fn.name
          /\ Len(fn.table) = Len(fn.before) + (IF before = {} THEN 1 ELSE 0)
          /\ \A k \in 1..Len(fn.before) : fn.table[k] = fn.before[k]
          /\ Cardinality(before) <= 1 => Cardinality(after) = 1

\* C28 witness: find_company_by_name has been called MaxCalls times for a name
\* no record of a non-empty Record Store had
C28_Witness ==
    /\ fn.op = "find_company_by_name" /\ fn.calls = MaxCalls
    /\ fn.before # <<>>
    /\ \A k \in 1..Len(fn.before) : fn.before[k].Name # fn.name
    /\ Len(fn.table) = Len(fn.before) + 1

\* The cell of an external row that a field of the record is imported from
ColumnOf(field) ==
    CASE field = "Name" -> "Name"
      [] field = "type" -> "Type"
      [] field = "ID" -> "ID"
      [] field = "photo" -> "Photo Google Drive"
      [] field = "google_map" -> "Google Map"
      [] field = "phone_number" -> "Phone Number"
      [] field = "whatsapp" -> "WhatsApp Number"
      [] field = "hours_of_operation" -> "Hours of Operation"
      [] OTHER -> "Owner / Manager"

ImportedFields == {"Name", "type", "ID", "photo", "google_map", "phone_number",
                   "whatsapp", "hours_of_operation", "manager_phone_number"}

\* C29: update_database_from_notion leaves one record per row that
\* read_all_rows returns, and no other; the record of a row has the row's id
\* as id_page and, in each of the nine imported fields, the text of the row's
\* cell (None for an empty cell).
C29_InitialImport ==
    (fn.op = "update_database_from_notion" /\ fn.called)
    => LET rows == read_all_rows(fn.rows)
       IN /\ Len(fn.out) = Len(rows)
          /\ \A i \in 1..Len(rows) :
                Cardinality({k \in 1..Len(fn.out) :
                                fn.out[k].id_page = rows[i].id}) = 1
          /\ \A i \in 1..Len(rows) : \A k \in 1..Len(fn.out) :
                fn.out[k].id_page = rows[i].id
                => \A f \in ImportedFields :
                      fn.out[k][f] = rows[i].properties[ColumnOf(f)].val

\* C29 witness: a table of three rows, full and nearly empty ones, has been
\* imported
C29_Witness ==
    /\ fn.op = "update_database_from_notion" /\ fn.called
    /\ Len(fn.rows) = 3
    /\ Len(fn.out) = 3
    /\ \E i \in 1..3 : fn.rows[i].properties["Owner / Manager"].val = "John Doe"

\* C30: at most one local record carries any given non-empty id_page; and a
\* pull pass that directly follows a committed pull pass and reads the same
\* rows creates no local record.
C30_JoinKeyUnique ==
    /\ \A j, k \in Keys :
          (db[j].id_page = db[k].id_page /\ ~Falsy(db[k].id_page)) => j = k
    /\ (done.kind = "pull" /\ done.second) => done.created = 0

\* C30 witness: the second of two pull passes over the same rows has
\* committed, the table holding a row a push created for a front-end record,
\* and a record awaiting its push carries the id of a row
C30_Witness ==
    /\ done.kind = "pull" /\ done.second /\ done.result = "commit"
    /\ \E i \in 1..Len(done.rows) : done.rows[i].src # 0
    /\ \E k \in Keys : db[k].is_updated /\ ~Falsy(db[k].id_page)

\* C31 (as claimed): handle_save writes the card's values and is_updated =
\* true to the record the user loaded, and leaves every other record of the
\* Record Store as it was.
C31_SaveWritesOneRecord ==
    (fn.op = "handle_save" /\ fn.called)
    => /\ fn.out[fn.key].is_updated
       /\ fn.out[fn.key].hours_of_operation = fn.card.hours_of_operation
       /\ \A k \in 1..Len(fn.table) : k # fn.key => fn.out[k] = fn.table[k]

\* The text the claim gives for a pair: "lat,lon"
LatLonText(item_coordinates) == item_coordinates.lat \o "," \o item_coordinates.lon

\* C32 (as claimed): after a pull pass that committed, with no front-end write
\* since it started, a record for whose link the resolver returned a pair in
\* that pass holds as coordinates the text "lat,lon" of that pair: both
\* numbers in full, no parenthesis and no space.
C32_CoordinateText ==
    (done.kind = "pull" /\ done.result = "commit" /\ quiet)
    => \A id \in DOMAIN done.net : \A k \in Keys :
          (db[k].id_page = id
           /\ "pair" \in {done.net[id].first, done.net[id].second})
          => db[k].coordinates =
                LatLonText(get_coordinates_from_link(db[k].google_map, "ok"))

\* C33: for a text that does not start with "https://"
\* get_coordinates_from_link returns no coordinates; for an https link of
\* fewer than 70 characters whose request does not fail it returns what the
\* parser finds in the URL the request ends at; for an https link of 70
\* characters or more it returns what the parser finds in the link itself,
\* whatever a request would meet.
C33_LinkClassification ==
    (fn.op = "get_coordinates_from_link" /\ fn.called /\ fn.url # NoneV)
    => /\ ~StartsWith(fn.url, "https://") => fn.out = NoCoordinates
       /\ (StartsWith(fn.url, "https://") /\ Len(fn.url) < 70 /\ fn.net = "ok")
             => fn.out = extract_coordinates_google_maps(Expand(fn.url))
       /\ (StartsWith(fn.url, "https://") /\ Len(fn.url) < 70 /\ fn.net = "none")
             => fn.out = NoCoordinates
       /\ (StartsWith(fn.url, "https://") /\ Len(fn.url) >= 70)
             => fn.out = extract_coordinates_google_maps(fn.url)

\* C33 witness: the resolver has been given a link of exactly 70 characters
\* that holds coordinates while a request would have ended at another page
C33_Witness ==
    /\ fn.op = "get_coordinates_from_link" /\ fn.called
    /\ fn.url # NoneV
    /\ Len(fn.url) = 70
    /\ fn.net = "none"
    /\ fn.out.tag = "pair"

\* A decimal number with 1 to 2 integer digits and exactly 6 fractional
\* digits, optionally negative; in CoordinateFrom the digits start at index j
CoordinateDigits(t, j, n) ==
    /\ n \in {1, 2}
    /\ j + n <= Len(t)
    /\ SubSeq(t, j + n, j + n) = "."
    /\ DigitRun(t, j + n + 1) = 6
    /\ j + n + 6 = Len(t)

CoordinateFrom(t, j) == CoordinateDigits(t, j, DigitRun(t, j))

IsCoordinate(t) ==
    CoordinateFrom(t, IF Len(t) > 0 /\ SubSeq(t, 1, 1) = "-" THEN 2 ELSE 1)

\* The tokens of a path segment that qualifies, as the claim describes them:
\* the two comma-separated tokens after "@", or the two numbers the segment
\* consists of; no tokens for a segment that does not qualify
TwoNumbers(ts) == Len(ts) = 2 /\ IsCoordinate(ts[1]) /\ IsCoordinate(ts[2])

ClaimedTokens(part) ==
    IF Find(part, "@", 1) # 0 THEN FirstTwo(Split(Split(part, "@")[2], ","))
    ELSE IF TwoNumbers(Split(part, ",")) THEN Split(part, ",")
    ELSE <<>>

RECURSIVE ClaimedFrom(_, _)
\* the pair of the first qualifying segment from segment i on
ClaimedStep(path_parts, i, ts) ==
    IF ts = <<>> THEN ClaimedFrom(path_parts, i + 1)
    ELSE IF Len(ts) = 2 THEN Pair(ts[1], ts[2])
    ELSE Pair(ts[1], "")

ClaimedFrom(path_parts, i) ==
    IF i > Len(path_parts) THEN NoCoordinates
    ELSE ClaimedStep(path_parts, i, ClaimedTokens(path_parts[i]))

\* C34 (as claimed): for an expanded link, whenever
\* extract_coordinates_google_maps returns, it returns the pair of the first
\* path segment that contains "@" (the two comma-separated tokens after "@")
\* or consists of two comma-separated numbers with 1 to 2 integer digits and
\* exactly 6 fractional digits, and no coordinates when no segment qualifies.
C34_ExpandedLinkParsing ==
    (/\ fn.op = "get_coordinates_from_link" /\ fn.called /\ fn.url # NoneV
     /\ StartsWith(fn.url, "https://") /\ Len(fn.url) >= 70
     /\ fn.out.tag # "raise")
    => fn.out = ClaimedFrom(Split(Path(fn.url), "/"), 1)

\* The property to_dict emits for a field of the record
PropertyOf(field) == IF field = "location" THEN "Location" ELSE ColumnOf(field)

\* C35 (as claimed): to_dict emits the property of a field exactly when the
\* field of the record is populated (the Location property exactly when
\* location is non-empty), and emits no property with an empty or null value.
C35_EmitsPopulatedFields ==
    (fn.op = "round_trip" /\ fn.called)
    => /\ \A f \in SavedFields :
             PropertyOf(f) \in DOMAIN to_dict(fn.record) <=> ~Falsy(fn.record[f])
       /\ \A c \in DOMAIN to_dict(fn.record) : ~Falsy(to_dict(fn.record)[c])

\* C36: format_property makes a title property for Name, url properties for
\* Photo Google Drive and Google Map, a select property for Type, rich-text
\* properties for Phone Number, WhatsApp Number, Hours of Operation and
\* Owner / Manager, whatever the value; for any other column a rich-text
\* property for a str, multi-select for a list, checkbox for a bool, number
\* for an int, select for a dict with a name; a bool is never made a number.
C36_FormatRules ==
    (fn.op = "format_property" /\ fn.called)
    => LET c == fn.column_name
           t == fn.value.t
           kind == fn.out.kind
       IN /\ c = "Name" => kind = "title"
          /\ c \in {"Photo Google Drive", "Google Map"} => kind = "url"
          /\ c = "Type" => kind = "select"
          /\ c \in {"Phone Number", "WhatsApp Number", "Hours of Operation",
                    "Owner / Manager"} => kind = "rich_text"
          /\ c \in {"ID", "Location", "Visited"}
                => /\ t = "str" => kind = "rich_text"
                   /\ t = "list" => kind = "multi_select"
                   /\ t = "bool" => kind = "checkbox"
                   /\ t = "int" => kind = "number"
                   /\ t = "dict" => kind = "select"
          /\ t = "bool" => kind # "number"
          /\ fn.out.val = fn.value.v

\* C36 witness: a bool has been formatted for a column without a rule of its
\* own
C36_Witness ==
    /\ fn.op = "format_property" /\ fn.called
    /\ fn.column_name = "Visited"
    /\ fn.value.t = "bool"
    /\ fn.out.kind = "checkbox"

\* Row i of a listing is the earliest-listed of several rows with its id
EarliestOfSeveral(rows, i) ==
    /\ \A j \in 1..(i - 1) : rows[j].id # rows[i].id
    /\ \E j \in (i + 1)..Len(rows) : rows[j].id = rows[i].id

\* C37 (as claimed): after a pull pass that committed, with no front-end write
\* since it started, when several rows the pass read carry the same id and one
\* local record with no pending edit carries that id, the record holds the
\* Name, the Hours of Operation and the Google Map link of the earliest-listed
\* of those rows.
C37_EarliestRowWins ==
    (done.kind = "pull" /\ done.result = "commit" /\ quiet)
    => \A i \in 1..Len(done.rows) : \A k \in Keys :
          LET P == done.rows[i].properties
          IN (/\ EarliestOfSeveral(done.rows, i)
              /\ ~SkippedRow(done.rows[i].id)
              /\ db[k].id_page = done.rows[i].id
              /\ \A j \in Keys : db[j].id_page = db[k].id_page => j = k)
             => /\ db[k].Name = P["Name"].val
                /\ db[k].hours_of_operation = P["Hours of Operation"].val
                /\ Same(db[k].google_map, P["Google Map"].val)

\* The step of a pull pass on the row with page id id raises, which ends the
\* pass in its except clause
RowRaises(id) ==
    /\ sync_pc = "pull"
    /\ pull_i >= 1
    /\ pull_rows[pull_i].id = id
    /\ sync_pc' = "idle"
    /\ done'.result = "abort"

\* Every external row other than the row id has a local record, which
\* carries the Name of the row
OthersApplied(id) ==
    \A i \in 1..Len(ext) :
        (ext[i].id # id /\ ~ext[i].archived)
        => \E k \in Keys : /\ db[k].id_page = ext[i].id
                           /\ db[k].Name = ext[i].properties["Name"].val

\* C38 (as claimed): if from some point on there is no chat input and no
\* external edit, and the only step of a pass that fails is the step of the
\* pull pass on one external row, then eventually and for ever every other
\* external row has a local record that carries the Name the row has.
C38_NoStarvation ==
    \A id \in {PageIds[n] : n \in 1..Len(PageIds)} :
        (<>[][SyncStep /\ (FailedStep => RowRaises(id))]_vars)
        => <>[]OthersApplied(id)

\* A chat whose venue list of at least one place has been rendered
VenueListed == fn.op = "take_radius" /\ fn.called /\ fn.places_list # <<>>

\* ceil(n / LEN_LIST)
CeilPages(n) == (n + LEN_LIST - 1) \div LEN_LIST

\* C39 (as claimed): for a list of n > 0 places the max_page held by the chat
\* after send_venue_list (the one prev_next_button reads) is
\* ceil(n / 3) - 1; max_page is held in thirds.
C39_MaxPage ==
    VenueListed
    => fn.max_page = LEN_LIST * (CeilPages(Len(fn.places_list)) - 1)

\* C40 (as claimed): after any presses of page_next and page_prev over a list
\* of n > 0 places the page is within 0..ceil(n/3)-1, the page rendered shows
\* at least one place and the Exit button, and once page_next no longer
\* advances every place of the list has been shown.
C40_PagingStateMachine ==
    VenueListed
    => /\ fn.page \in 0..(CeilPages(Len(fn.places_list)) - 1)
       /\ fn.sent = "keyboard"
       /\ fn.reply_markup.places # <<>>
       /\ fn.reply_markup.exit
       /\ ~(LEN_LIST * fn.page < fn.max_page)
          => fn.shown = {fn.places_list[i] : i \in 1..Len(fn.places_list)}

====
